---- MODULE Spec2Model ----
(***************************************************************************)
(* Model of the asynchronous logging pipeline of winston_rs                *)
(* (src/src/logger.rs): producer threads calling log / flush / close /     *)
(* configure / add_transport / remove_transport on one Logger, the bounded *)
(* channel, the single worker thread, the flush-completion (mutex,         *)
(* condvar, bool) triple and the shared state (level, level registry,      *)
(* format, transport list, severity cache, pre-transport buffer).          *)
(***************************************************************************)
EXTENDS Integers, Sequences, FiniteSets, TLC

\* ------------------------------------------------------------------ bounds
NumThreads == 2      \* caller threads sharing the logger
MaxOps == 5          \* public operations the threads start, all together
MaxCap == 2          \* largest channel capacity tried
MaxHandles == 2      \* handles NEXT_TRANSPORT_ID may hand out

Threads == 1..NumThreads
Handles == 0..(MaxHandles - 1)

\* BackpressureStrategy
Strategies == {"DropOldest", "Block", "DropCurrent"}

\* holder of the flush_complete mutex when nobody holds it
NoOne == 0

\* Option<T>: None is the empty sequence, Some(x) the one-element sequence
None == <<>>
Some(x) == <<x>>

\* LoggerLevels::default
DefaultLevels == [error |-> 0, warn |-> 1, info |-> 2, debug |-> 3, trace |-> 4]

\* LoggerLevels::get_severity
get_severity(reg, key) == IF key \in DOMAIN reg THEN Some(reg[key]) ELSE None

\* Format::transform of the formats tried: "json" returns the record, "drop"
\* is a filtering format that returns None for every record
Formats == {"json", "drop"}
Transform(f, e) == IF f = "drop" THEN None ELSE Some(e)

\* LoggerTransport::new for the transport with handle h, then with_level /
\* with_format; a transport list is a sequence of these (an absent list and
\* an empty one behave alike and are both the empty sequence)
LoggerTransport(h) == [handle |-> h, level |-> None, format |-> None]
LoggerTransportWith(h, lv, f) == [handle |-> h, level |-> lv, format |-> f]

\* a LogInfo: i-th record of thread t, with its level name and whether its
\* message and metadata are both empty
LogInfo(t, i, lv, e) == [src |-> t, seq |-> i, level |-> lv, empty |-> e]

\* an ordinary record: level "info", non-empty message
Rec(t, i) == LogInfo(t, i, "info", FALSE)

VARIABLES
    queue,                  \* messages in the bounded channel, oldest first
    capacity,               \* options.channel_capacity
    strategy,               \* options.backpressure_strategy
    is_closed,              \* Logger.is_closed
    completed,              \* the bool of flush_complete
    mutex,                  \* holder of the flush_complete mutex
    worker_thread,          \* Logger.worker_thread: "Some" until taken
    wpc,                    \* worker: "recv", "flush_signal" or "exited"
    transports,             \* state.options.transports: sequence of wrappers
    buffer,                 \* state.buffer
    nextHandle,             \* NEXT_TRANSPORT_ID
    received,               \* per transport: records passed to its log()
    tflushed,               \* per transport: number of flush() invocations
    pc,                     \* per caller thread: position in its operation
    ops,                    \* operations started so far, over all threads
    logged,                 \* per caller thread: records passed to log()
    stolen,                 \* kinds of messages drop_oldest_and_retry took
    buffered,               \* records the worker has pushed to the buffer
    shutdownsSent,          \* Shutdown messages enqueued so far
    lateLog,                \* threads whose log() began after close returned
    entry,                  \* per caller thread: the entry of its log() call
    levels,                 \* state.options.levels (Option of a registry)
    level,                  \* state.options.level (Option of a level name)
    format,                 \* state.options.format (Option of a format)
    min_required_severity,  \* state.min_required_severity (Option of u8)
    removeLog,              \* per handle: results of remove_transport calls
    cleared,                \* handles a configure call has cleared
    added,                  \* handles returned by add_transport
    results,                \* per caller thread: the Vec its query() builds
    querying,               \* per caller thread: its LogQuery, the index of the
                            \* transport being queried, whether a query failed
    GLOBAL_LOGGER,          \* global.rs: the OnceLock (Option of the thread
                            \* whose init() installed its logger)
    global_ret              \* per caller thread: outcomes of its init() and
                            \* try_log() calls and of a call that panicked

vars == <<queue, capacity, strategy, is_closed, completed, mutex,
          worker_thread, wpc, transports, buffer, nextHandle,
          received, tflushed, pc, ops, logged, stolen, buffered,
          shutdownsSent, lateLog, entry, levels, level, format,
          min_required_severity, removeLog, cleared, added,
          results, querying, GLOBAL_LOGGER, global_ret>>

\* ---------------------------------------------------------------- messages
\* LogMessage::Entry / Flush / Shutdown; "by" records the enqueuing thread
EntryMsg(t, i) == [type |-> "Entry", rec |-> Rec(t, i)]
EntryOf(e) == [type |-> "Entry", rec |-> e]
FlushMsg(t) == [type |-> "Flush", by |-> t]
ShutdownMsg(t) == [type |-> "Shutdown", by |-> t]

IsFull(q) == Len(q) >= capacity

\* a thread between two public calls; the label names the last return
RestPcs == {"idle", "flush_ret", "flush_skip", "close_ret", "close_noop",
            "query_ok", "query_err"}
AtRest(t) == pc[t] \in RestPcs
CanStart(t) == AtRest(t) /\ ops < MaxOps

\* the worker holds the shared-state write lock across whole messages; the
\* only place it can be suspended while holding it is the Flush arm, when it
\* waits for the flush_complete mutex
StateLockFree == wpc # "flush_signal"

\* no query() call holds the shared-state read lock: a query keeps it while
\* it calls the transports
NoReader == \A u \in Threads : pc[u] # "query_call"

\* the shared-state write lock can be taken
StateWritable == StateLockFree /\ NoReader

\* a LogQuery, as far as Logger::query and the transports read it: the level
\* allow-list, the start offset and the limit (Options), the order
LogQuery(lvls, st, lim, ord) ==
    [levels |-> lvls, start |-> st, limit |-> lim, order |-> ord]

\* a thread that is not in query(): no transport being queried
NoQuery == [query |-> LogQuery({}, None, None, "Descending"),
            index |-> 0, failed |-> FALSE]

\* ------------------------------------------------------------ the pipeline
InList(ts, h) == \E i \in 1..Len(ts) : ts[i].handle = h

\* state.options, as far as the worker and configure read it
options == [levels |-> levels, level |-> level, format |-> format,
            transports |-> transports]

\* LoggerOptions::default, with a given transport list
DefaultOptions(ts) == [levels |-> Some(DefaultLevels), level |-> Some("info"),
                       format |-> Some("json"), transports |-> ts]

\* process_entry, the level check of one transport: FALSE where the code
\* takes one of its two `continue` branches
LevelAllows(o, tr, e) ==
    LET effective_level == IF tr.level # None THEN tr.level ELSE o.level IN
    IF o.levels # None /\ effective_level # None
       THEN LET entry_sev == get_severity(o.levels[1], e.level)
                required_sev == get_severity(o.levels[1], effective_level[1])
            IN IF entry_sev # None /\ required_sev # None
                  THEN ~(entry_sev[1] > required_sev[1])
                  ELSE FALSE
       ELSE TRUE

\* process_entry, the match on (transport format, logger format)
formatted_message(o, tr, e) ==
    IF tr.format # None THEN Transform(tr.format[1], e)
    ELSE IF o.format # None THEN Transform(o.format[1], e)
    ELSE Some(e)

\* process_entry, the loop over the transports
RECURSIVE dispatch(_, _, _, _)
dispatch(recv, o, ts, e) ==
    IF ts = <<>> THEN recv
    ELSE LET tr == Head(ts)
             msg == formatted_message(o, tr, e)
             nxt == IF LevelAllows(o, tr, e) /\ msg # None
                       THEN [recv EXCEPT ![tr.handle] = Append(@, msg[1])]
                       ELSE recv
         IN dispatch(nxt, o, Tail(ts), e)

\* mutant of process_entry: the check for an empty record is missing
process_entry_any(recv, o, e) == dispatch(recv, o, o.transports, e)

\* process_entry: a record with empty message and metadata goes nowhere
process_entry(recv, o, e) ==
    IF e.empty THEN recv ELSE dispatch(recv, o, o.transports, e)

\* compute_min_severity, the loop over the transports
RECURSIVE max_override(_, _, _)
max_override(reg, cur, ts) ==
    IF ts = <<>> THEN cur
    ELSE LET tl == Head(ts).level
             sv == IF tl = None THEN None ELSE get_severity(reg, tl[1])
             nxt == IF sv = None THEN cur
                    ELSE IF cur = None THEN sv
                    ELSE IF cur[1] >= sv[1] THEN cur ELSE sv
         IN max_override(reg, nxt, Tail(ts))

\* compute_min_severity
compute_min_severity(o) ==
    IF o.levels = None THEN None
    ELSE max_override(o.levels[1],
                      IF o.level = None THEN None
                      ELSE get_severity(o.levels[1], o.level[1]),
                      o.transports)

\* is_level_enabled
is_level_enabled(entry_level, min_required, regopt) ==
    /\ min_required # None
    /\ regopt # None
    /\ get_severity(regopt[1], entry_level) # None
    /\ min_required[1] >= get_severity(regopt[1], entry_level)[1]

\* mutant of process_buffered_entries: the buffer is popped from the back
RECURSIVE process_buffered_entries_lifo(_, _, _)
process_buffered_entries_lifo(recv, o, buf) ==
    IF buf = <<>> THEN recv
    ELSE process_buffered_entries_lifo(process_entry(recv, o, buf[Len(buf)]), o,
                                       SubSeq(buf, 1, Len(buf) - 1))

\* process_buffered_entries: pop the buffer front to back through process_entry
RECURSIVE process_buffered_entries(_, _, _)
process_buffered_entries(recv, o, buf) ==
    IF buf = <<>> THEN recv
    ELSE process_buffered_entries(process_entry(recv, o, Head(buf)), o, Tail(buf))

\* ------------------------------------------------------------------- Init
\* Logger::new: the logger built from options with a capacity in caps, a
\* strategy in strats and the level, registry, format and transports of a
\* member of optset (the handles of whose transports are 0, 1, ...)
InitFrom(caps, strats, optset) ==
    /\ queue = <<>>
    /\ capacity \in caps
    /\ strategy \in strats
    /\ is_closed = FALSE
    /\ completed = FALSE
    /\ mutex = NoOne
    /\ worker_thread = "Some"
    /\ wpc = "recv"
    /\ \E o \in optset :
          /\ levels = o.levels
          /\ level = o.level
          /\ format = o.format
          /\ transports = o.transports
          /\ nextHandle = Len(o.transports)
          /\ min_required_severity = compute_min_severity(o)
    /\ buffer = <<>>
    /\ received = [h \in Handles |-> <<>>]
    /\ tflushed = [h \in Handles |-> 0]
    /\ pc = [t \in Threads |-> "idle"]
    /\ ops = 0
    /\ logged = [t \in Threads |-> 0]
    /\ stolen = {}
    /\ buffered = {}
    /\ shutdownsSent = 0
    /\ lateLog = {}
    /\ entry = [t \in Threads |-> None]
    /\ removeLog = [h \in Handles |-> <<>>]
    /\ cleared = {}
    /\ added = {}
    /\ results = [t \in Threads |-> <<>>]
    /\ querying = [t \in Threads |-> NoQuery]
    /\ GLOBAL_LOGGER = None
    /\ global_ret = [t \in Threads |-> <<>>]

\* Logger::new with the default level, registry and format and ns plain
\* transports given to the builder
InitWith(caps, strats, ns) ==
    InitFrom(caps, strats,
             {DefaultOptions([i \in 1..n |-> LoggerTransport(i - 1)]) : n \in ns})

Init == InitWith(1..MaxCap, Strategies, 0..MaxHandles)

\* -------------------------------------------------------------------- log
\* Logger::log, the try_send, for a record of level lv that is degenerate
\* (empty message and metadata) iff e, whoever calls it
LoggerLog(t, lv, e) ==
    /\ CanStart(t)
    /\ ops' = ops + 1
    /\ logged' = [logged EXCEPT ![t] = @ + 1]
    /\ entry' = [entry EXCEPT ![t] = Some(LogInfo(t, logged[t] + 1, lv, e))]
    /\ IF ~IsFull(queue)
          THEN /\ queue' = Append(queue, EntryOf(LogInfo(t, logged[t] + 1, lv, e)))
               /\ pc' = [pc EXCEPT ![t] = "idle"]
          ELSE /\ queue' = queue
               /\ pc' = [pc EXCEPT ![t] = "log_full"]
    /\ lateLog' = IF worker_thread = "None" THEN lateLog \cup {t}
                                             ELSE lateLog \ {t}
    /\ UNCHANGED <<capacity, strategy, is_closed, completed, mutex,
                   worker_thread, wpc, transports, buffer, nextHandle,
                   received, tflushed, stolen, shutdownsSent, buffered,
                   levels, level, format, min_required_severity, removeLog,
                   cleared, added, results, querying, GLOBAL_LOGGER>>

\* Logger::log called on the logger itself
LogTrySendOf(t, lv, e) == LoggerLog(t, lv, e) /\ UNCHANGED global_ret

\* Logger::log of an ordinary record
LogTrySend(t) == LogTrySendOf(t, "info", FALSE)

\* mutant of HandleFullChannel: DropCurrent also evicts the oldest message
HandleFullChannelEvict(t) ==
    /\ pc[t] = "log_full"
    /\ StateLockFree
    /\ pc' = [pc EXCEPT ![t] = CASE strategy = "DropOldest" -> "log_steal"
                                 [] strategy = "Block" -> "log_block"
                                 [] strategy = "DropCurrent" -> "idle"]
    /\ queue' = IF strategy = "DropCurrent" /\ queue # <<>> THEN Tail(queue)
                                                            ELSE queue
    /\ UNCHANGED <<capacity, strategy, is_closed, completed, mutex,
                   worker_thread, wpc, transports, buffer, nextHandle,
                   received, tflushed, ops, logged, stolen, shutdownsSent,
                   buffered, lateLog, entry, levels, level, format,
                   min_required_severity, removeLog, cleared, added, results,
                   querying, GLOBAL_LOGGER, global_ret>>

\* mutant of HandleFullChannel: every strategy falls back to the blocking send
HandleFullChannelBlock(t) ==
    /\ pc[t] = "log_full"
    /\ StateLockFree
    /\ pc' = [pc EXCEPT ![t] = "log_block"]
    /\ UNCHANGED <<queue, capacity, strategy, is_closed, completed, mutex,
                   worker_thread, wpc, transports, buffer, nextHandle,
                   received, tflushed, ops, logged, stolen, shutdownsSent,
                   buffered, lateLog, entry, levels, level, format,
                   min_required_severity, removeLog, cleared, added, results,
                   querying, GLOBAL_LOGGER, global_ret>>

\* Logger::handle_full_channel: read the strategy under the read lock
HandleFullChannel(t) ==
    /\ pc[t] = "log_full"
    /\ StateLockFree
    /\ pc' = [pc EXCEPT ![t] = CASE strategy = "DropOldest" -> "log_steal"
                                 [] strategy = "Block" -> "log_block"
                                 [] strategy = "DropCurrent" -> "idle"]
    /\ UNCHANGED <<queue, capacity, strategy, is_closed, completed, mutex,
                   worker_thread, wpc, transports, buffer, nextHandle,
                   received, tflushed, ops, logged, stolen, shutdownsSent,
                   buffered, lateLog, entry, levels, level, format,
                   min_required_severity, removeLog, cleared, added, results,
                   querying, GLOBAL_LOGGER, global_ret>>

\* mutant of LogBlockSend: the send returns without enqueuing the entry
LogBlockSendLossy(t) ==
    /\ pc[t] = "log_block"
    /\ ~IsFull(queue)
    /\ queue' = queue
    /\ pc' = [pc EXCEPT ![t] = "idle"]
    /\ UNCHANGED <<capacity, strategy, is_closed, completed, mutex,
                   worker_thread, wpc, transports, buffer, nextHandle,
                   received, tflushed, ops, logged, stolen, shutdownsSent,
                   buffered, lateLog, entry, levels, level, format,
                   min_required_severity, removeLog, cleared, added, results,
                   querying, GLOBAL_LOGGER, global_ret>>

\* BackpressureStrategy::Block: the blocking send
LogBlockSend(t) ==
    /\ pc[t] = "log_block"
    /\ ~IsFull(queue)
    /\ queue' = Append(queue, EntryOf(entry[t][1]))
    /\ pc' = [pc EXCEPT ![t] = "idle"]
    /\ UNCHANGED <<capacity, strategy, is_closed, completed, mutex,
                   worker_thread, wpc, transports, buffer, nextHandle,
                   received, tflushed, ops, logged, stolen, shutdownsSent,
                   buffered, lateLog, entry, levels, level, format,
                   min_required_severity, removeLog, cleared, added, results,
                   querying, GLOBAL_LOGGER, global_ret>>

\* mutant of DropOldestRecv: the try_recv is missing
DropOldestRecvNone(t) ==
    /\ pc[t] = "log_steal"
    /\ pc' = [pc EXCEPT ![t] = "log_retry"]
    /\ UNCHANGED <<queue, capacity, strategy, is_closed, completed, mutex,
                   worker_thread, wpc, transports, buffer, nextHandle,
                   received, tflushed, ops, logged, stolen, shutdownsSent,
                   buffered, lateLog, entry, levels, level, format,
                   min_required_severity, removeLog, cleared, added, results,
                   querying, GLOBAL_LOGGER, global_ret>>

\* drop_oldest_and_retry: the try_recv on the shared receiver
DropOldestRecv(t) ==
    /\ pc[t] = "log_steal"
    /\ IF queue # <<>>
          THEN /\ queue' = Tail(queue)
               /\ stolen' = stolen \cup {Head(queue).type}
          ELSE UNCHANGED <<queue, stolen>>
    /\ pc' = [pc EXCEPT ![t] = "log_retry"]
    /\ UNCHANGED <<capacity, strategy, is_closed, completed, mutex,
                   worker_thread, wpc, transports, buffer, nextHandle,
                   received, tflushed, ops, logged, shutdownsSent, buffered,
                   lateLog, entry, levels, level, format,
                   min_required_severity, removeLog, cleared, added, results,
                   querying, GLOBAL_LOGGER, global_ret>>

\* drop_oldest_and_retry: the second try_send
DropOldestRetry(t) ==
    /\ pc[t] = "log_retry"
    /\ queue' = IF ~IsFull(queue) THEN Append(queue, EntryOf(entry[t][1]))
                                  ELSE queue
    /\ pc' = [pc EXCEPT ![t] = "idle"]
    /\ UNCHANGED <<capacity, strategy, is_closed, completed, mutex,
                   worker_thread, wpc, transports, buffer, nextHandle,
                   received, tflushed, ops, logged, stolen, shutdownsSent,
                   buffered, lateLog, entry, levels, level, format,
                   min_required_severity, removeLog, cleared, added, results,
                   querying, GLOBAL_LOGGER, global_ret>>

\* ------------------------------------------------------------------ flush
\* mutant of FlushEntryPc: the is_closed load is missing
FlushEntryPcNoCheck(closed, retPc) == "flush_lock"

\* where flush() goes after its is_closed load: straight back to the caller
\* when the flag is set, else on to the flush_complete mutex
FlushEntryPc(closed, retPc) == IF closed THEN retPc ELSE "flush_lock"

\* Logger::flush, the is_closed short-circuit
FlushCheckClosed(t) ==
    /\ CanStart(t)
    /\ ops' = ops + 1
    /\ pc' = [pc EXCEPT ![t] = FlushEntryPc(is_closed, "flush_skip")]
    /\ UNCHANGED <<queue, capacity, strategy, is_closed, completed, mutex,
                   worker_thread, wpc, transports, buffer, nextHandle,
                   received, tflushed, logged, stolen, shutdownsSent,
                   buffered, lateLog, entry, levels, level, format,
                   min_required_severity, removeLog, cleared, added, results,
                   querying, GLOBAL_LOGGER, global_ret>>

\* Logger::flush: lock the mutex and reset the flag
FlushLock(t) ==
    /\ pc[t] = "flush_lock"
    /\ mutex = NoOne
    /\ mutex' = t
    /\ completed' = FALSE
    /\ pc' = [pc EXCEPT ![t] = "flush_send"]
    /\ UNCHANGED <<queue, capacity, strategy, is_closed, worker_thread, wpc,
                   transports, buffer, nextHandle, received, tflushed, ops,
                   logged, stolen, shutdownsSent, buffered, lateLog, entry,
                   levels, level, format, min_required_severity, removeLog,
                   cleared, added, results, querying, GLOBAL_LOGGER,
                   global_ret>>

\* mutant of AfterCheck: the wait loop is missing, flush() returns at once
AfterCheckNoWait(done) == "flush_ret"

\* what a thread holding the mutex does at `while !*completed`: leave the
\* loop and return, or release the mutex and sleep on the condvar
AfterCheck(done) == IF done THEN "flush_ret" ELSE "flush_wait"

\* Logger::flush: the blocking send of Flush (mutex still held), then the
\* first evaluation of the wait loop, which releases the mutex either way
FlushSend(t) ==
    /\ pc[t] = "flush_send"
    /\ ~IsFull(queue)
    /\ queue' = Append(queue, FlushMsg(t))
    /\ mutex' = NoOne
    /\ pc' = [pc EXCEPT ![t] = AfterCheck(completed)]
    /\ UNCHANGED <<capacity, strategy, is_closed, completed, worker_thread,
                   wpc, transports, buffer, nextHandle, received, tflushed,
                   ops, logged, stolen, shutdownsSent, buffered, lateLog,
                   entry, levels, level, format, min_required_severity,
                   removeLog, cleared, added, results, querying,
                   GLOBAL_LOGGER, global_ret>>

\* Condvar::wait returning: reacquire the mutex and test the flag again
FlushWake(t) ==
    /\ pc[t] = "flush_woken"
    /\ mutex = NoOne
    /\ pc' = [pc EXCEPT ![t] = AfterCheck(completed)]
    /\ UNCHANGED <<queue, capacity, strategy, is_closed, completed, mutex,
                   worker_thread, wpc, transports, buffer, nextHandle,
                   received, tflushed, ops, logged, stolen, shutdownsSent,
                   buffered, lateLog, entry, levels, level, format,
                   min_required_severity, removeLog, cleared, added, results,
                   querying, GLOBAL_LOGGER, global_ret>>

\* Condvar::wait may return without a notification
SpuriousWake(t) ==
    /\ pc[t] = "flush_wait"
    /\ pc' = [pc EXCEPT ![t] = "flush_woken"]
    /\ UNCHANGED <<queue, capacity, strategy, is_closed, completed, mutex,
                   worker_thread, wpc, transports, buffer, nextHandle,
                   received, tflushed, ops, logged, stolen, shutdownsSent,
                   buffered, lateLog, entry, levels, level, format,
                   min_required_severity, removeLog, cleared, added, results,
                   querying, GLOBAL_LOGGER, global_ret>>

\* ------------------------------------------------------------------ close
\* mutant of CloseSwap: the result of the swap is ignored
CloseSwapAlways(t) ==
    /\ CanStart(t)
    /\ ops' = ops + 1
    /\ is_closed' = TRUE
    /\ pc' = [pc EXCEPT ![t] = "close_send"]
    /\ UNCHANGED <<queue, capacity, strategy, completed, mutex,
                   worker_thread, wpc, transports, buffer, nextHandle,
                   received, tflushed, logged, stolen, shutdownsSent,
                   buffered, lateLog, entry, levels, level, format,
                   min_required_severity, removeLog, cleared, added, results,
                   querying, GLOBAL_LOGGER, global_ret>>

\* Logger::close: the swap, and the flush() call that follows it on the same
\* thread (its is_closed load sees the flag this call has just set)
CloseSwap(t) ==
    /\ CanStart(t)
    /\ ops' = ops + 1
    /\ is_closed' = TRUE
    /\ pc' = [pc EXCEPT ![t] = IF is_closed THEN "close_noop"
                               ELSE FlushEntryPc(is_closed', "close_send")]
    /\ UNCHANGED <<queue, capacity, strategy, completed, mutex,
                   worker_thread, wpc, transports, buffer, nextHandle,
                   received, tflushed, logged, stolen, shutdownsSent,
                   buffered, lateLog, entry, levels, level, format,
                   min_required_severity, removeLog, cleared, added, results,
                   querying, GLOBAL_LOGGER, global_ret>>

\* Logger::close: the blocking send of Shutdown
CloseSend(t) ==
    /\ pc[t] = "close_send"
    /\ ~IsFull(queue)
    /\ queue' = Append(queue, ShutdownMsg(t))
    /\ shutdownsSent' = shutdownsSent + 1
    /\ pc' = [pc EXCEPT ![t] = "close_notify"]
    /\ UNCHANGED <<capacity, strategy, is_closed, completed, mutex,
                   worker_thread, wpc, transports, buffer, nextHandle,
                   received, tflushed, ops, logged, stolen, buffered,
                   lateLog, entry, levels, level, format,
                   min_required_severity, removeLog, cleared, added, results,
                   querying, GLOBAL_LOGGER, global_ret>>

\* Logger::close: set the flag under the mutex and notify_all
CloseNotify(t) ==
    /\ pc[t] = "close_notify"
    /\ mutex = NoOne
    /\ completed' = TRUE
    /\ pc' = [u \in Threads |->
                IF u = t THEN "close_join"
                ELSE IF pc[u] = "flush_wait" THEN "flush_woken" ELSE pc[u]]
    /\ UNCHANGED <<queue, capacity, strategy, is_closed, mutex,
                   worker_thread, wpc, transports, buffer, nextHandle,
                   received, tflushed, ops, logged, stolen, shutdownsSent,
                   buffered, lateLog, entry, levels, level, format,
                   min_required_severity, removeLog, cleared, added, results,
                   querying, GLOBAL_LOGGER, global_ret>>

\* mutant of CloseJoin: the handle is taken but the worker is not joined
CloseJoinNoWait(t) ==
    /\ pc[t] = "close_join"
    /\ worker_thread' = "None"
    /\ pc' = [pc EXCEPT ![t] = "close_ret"]
    /\ UNCHANGED <<queue, capacity, strategy, is_closed, completed, mutex,
                   wpc, transports, buffer, nextHandle, received, tflushed,
                   ops, logged, stolen, shutdownsSent, buffered, lateLog,
                   entry, levels, level, format, min_required_severity,
                   removeLog, cleared, added, results, querying,
                   GLOBAL_LOGGER, global_ret>>

\* Logger::close: take the join handle and join the worker
CloseJoin(t) ==
    /\ pc[t] = "close_join"
    /\ worker_thread = "Some" => wpc = "exited"
    /\ worker_thread' = "None"
    /\ pc' = [pc EXCEPT ![t] = "close_ret"]
    /\ UNCHANGED <<queue, capacity, strategy, is_closed, completed, mutex,
                   wpc, transports, buffer, nextHandle, received, tflushed,
                   ops, logged, stolen, shutdownsSent, buffered, lateLog,
                   entry, levels, level, format, min_required_severity,
                   removeLog, cleared, added, results, querying,
                   GLOBAL_LOGGER, global_ret>>

\* ----------------------------------------------------------------- worker
\* the transports whose flush returns an error (a transport built to fail,
\* as the tests' MockTransport with should_fail_flush)
FailingFlush == {0}

\* Transport::flush of the transport with handle h
TransportFlush(h) == IF h \in FailingFlush THEN "Err" ELSE "Ok"

\* mutant of flush_transports: the loop ends at the first error
RECURSIVE flush_transports_abort(_, _)
flush_transports_abort(tf, ts) ==
    IF ts = <<>> THEN tf
    ELSE LET h == Head(ts).handle
             called == [tf EXCEPT ![h] = @ + 1]
         IN IF TransportFlush(h) = "Err" THEN called
            ELSE flush_transports_abort(called, Tail(ts))

\* worker_loop, Flush arm, the loop over the transports: flush is invoked
\* on each one and its result is discarded
RECURSIVE flush_transports(_, _)
flush_transports(tf, ts) ==
    IF ts = <<>> THEN tf
    ELSE LET h == Head(ts).handle
             called == [tf EXCEPT ![h] = @ + 1]
             discarded == TransportFlush(h)     \* let _ = ...flush()
         IN flush_transports(called, Tail(ts))

\* worker_loop, Entry arm
WorkerEntry ==
    /\ wpc = "recv"
    /\ NoReader
    /\ queue # <<>>
    /\ Head(queue).type = "Entry"
    /\ queue' = Tail(queue)
    /\ IF transports = <<>>
          THEN /\ buffer' = Append(buffer, Head(queue).rec)
               /\ buffered' = buffered \cup {Head(queue).rec}
               /\ received' = received
          ELSE /\ buffer' = <<>>
               /\ buffered' = buffered
               /\ received' = process_entry(
                                 process_buffered_entries(received, options, buffer),
                                 options, Head(queue).rec)
    /\ UNCHANGED <<capacity, strategy, is_closed, completed, mutex,
                   worker_thread, wpc, transports, nextHandle, tflushed, pc,
                   ops, logged, stolen, shutdownsSent, lateLog, entry,
                   levels, level, format, min_required_severity, removeLog,
                   cleared, added, results, querying, GLOBAL_LOGGER,
                   global_ret>>

\* mutant of WorkerFlush: the pre-transport buffer is not drained
WorkerFlushNoDrain ==
    /\ wpc = "recv"
    /\ NoReader
    /\ queue # <<>>
    /\ Head(queue).type = "Flush"
    /\ queue' = Tail(queue)
    /\ IF transports # <<>>
          THEN /\ buffer' = buffer
               /\ received' = received
               /\ tflushed' = flush_transports(tflushed, transports)
          ELSE UNCHANGED <<buffer, received, tflushed>>
    /\ wpc' = "flush_signal"
    /\ UNCHANGED <<capacity, strategy, is_closed, completed, mutex,
                   worker_thread, transports, nextHandle, pc, ops, logged,
                   stolen, shutdownsSent, buffered, lateLog, entry, levels,
                   level, format, min_required_severity, removeLog, cleared,
                   added, results, querying, GLOBAL_LOGGER, global_ret>>

\* worker_loop, Flush arm up to the lock of flush_complete (the shared-state
\* write guard stays alive until the end of the arm)
\* mutant of WorkerFlush: the buffer is drained whatever the transport list
WorkerFlushDrainAlways ==
    /\ wpc = "recv"
    /\ NoReader
    /\ queue # <<>>
    /\ Head(queue).type = "Flush"
    /\ queue' = Tail(queue)
    /\ buffer' = <<>>
    /\ received' = process_buffered_entries(received, options, buffer)
    /\ tflushed' = flush_transports(tflushed, transports)
    /\ wpc' = "flush_signal"
    /\ UNCHANGED <<capacity, strategy, is_closed, completed, mutex,
                   worker_thread, transports, nextHandle, pc, ops, logged,
                   stolen, shutdownsSent, buffered, lateLog, entry, levels,
                   level, format, min_required_severity, removeLog, cleared,
                   added, results, querying, GLOBAL_LOGGER, global_ret>>

WorkerFlush ==
    /\ wpc = "recv"
    /\ NoReader
    /\ queue # <<>>
    /\ Head(queue).type = "Flush"
    /\ queue' = Tail(queue)
    /\ IF transports # <<>>
          THEN /\ buffer' = <<>>
               /\ received' = process_buffered_entries(received, options, buffer)
               /\ tflushed' = flush_transports(tflushed, transports)
          ELSE UNCHANGED <<buffer, received, tflushed>>
    /\ wpc' = "flush_signal"
    /\ UNCHANGED <<capacity, strategy, is_closed, completed, mutex,
                   worker_thread, transports, nextHandle, pc, ops, logged,
                   stolen, shutdownsSent, buffered, lateLog, entry, levels,
                   level, format, min_required_severity, removeLog, cleared,
                   added, results, querying, GLOBAL_LOGGER, global_ret>>

\* the threads a notification of the worker moves out of Condvar::wait:
\* notify_one wakes one of the sleeping threads
WorkerNotified(sleeping) ==
    IF sleeping = {} THEN {{}} ELSE {{u} : u \in sleeping}

\* worker_loop, Flush arm: set the flag under the mutex and notify
WorkerFlushSignal ==
    /\ wpc = "flush_signal"
    /\ mutex = NoOne
    /\ completed' = TRUE
    /\ \E W \in WorkerNotified({u \in Threads : pc[u] = "flush_wait"}) :
          pc' = [u \in Threads |-> IF u \in W THEN "flush_woken" ELSE pc[u]]
    /\ wpc' = "recv"
    /\ UNCHANGED <<queue, capacity, strategy, is_closed, mutex,
                   worker_thread, transports, buffer, nextHandle, received,
                   tflushed, ops, logged, stolen, shutdownsSent, buffered,
                   lateLog, entry, levels, level, format,
                   min_required_severity, removeLog, cleared, added, results,
                   querying, GLOBAL_LOGGER, global_ret>>

\* worker_loop, Shutdown arm
WorkerShutdown ==
    /\ wpc = "recv"
    /\ NoReader
    /\ queue # <<>>
    /\ Head(queue).type = "Shutdown"
    /\ queue' = Tail(queue)
    /\ buffer' = <<>>
    /\ received' = process_buffered_entries(received, options, buffer)
    /\ wpc' = "exited"
    /\ UNCHANGED <<capacity, strategy, is_closed, completed, mutex,
                   worker_thread, transports, nextHandle, tflushed, pc, ops,
                   logged, stolen, shutdownsSent, buffered, lateLog, entry,
                   levels, level, format, min_required_severity, removeLog,
                   cleared, added, results, querying, GLOBAL_LOGGER,
                   global_ret>>

\* -------------------------------------------------------------- transports
\* mutant of AddTransportWith: the counter is read but not advanced
AddTransportSameId(t, lv, f) ==
    /\ CanStart(t)
    /\ StateWritable
    /\ nextHandle < MaxHandles
    /\ ops' = ops + 1
    /\ nextHandle' = nextHandle
    /\ transports' = Append(transports, LoggerTransportWith(nextHandle, lv, f))
    /\ added' = added \cup {nextHandle}
    /\ pc' = [pc EXCEPT ![t] = "idle"]
    /\ UNCHANGED <<queue, capacity, strategy, is_closed, completed, mutex,
                   worker_thread, wpc, buffer, received, tflushed, logged,
                   stolen, shutdownsSent, buffered, lateLog, entry, levels,
                   level, format, min_required_severity, removeLog, cleared,
                   results, querying, GLOBAL_LOGGER, global_ret>>

\* Logger::add_transport (and TransportBuilder::add) of a transport built
\* with level override lv and format override f (each an Option)
AddTransportWith(t, lv, f) ==
    /\ CanStart(t)
    /\ StateWritable
    /\ nextHandle < MaxHandles
    /\ ops' = ops + 1
    /\ nextHandle' = nextHandle + 1
    /\ transports' = Append(transports, LoggerTransportWith(nextHandle, lv, f))
    /\ added' = added \cup {nextHandle}
    /\ pc' = [pc EXCEPT ![t] = "idle"]
    /\ UNCHANGED <<queue, capacity, strategy, is_closed, completed, mutex,
                   worker_thread, wpc, buffer, received, tflushed, logged,
                   stolen, shutdownsSent, buffered, lateLog, entry, levels,
                   level, format, min_required_severity, removeLog, cleared,
                   results, querying, GLOBAL_LOGGER, global_ret>>

\* Logger::add_transport of a plain transport
AddTransport(t) == AddTransportWith(t, None, None)

\* mutant of RemoveAt: the element stays in the list
RemoveAtKeep(ts, i) == ts

\* mutant of RemoveAt: the last element is removed, whatever the index
RemoveAtLast(ts, i) == SubSeq(ts, 1, Len(ts) - 1)

\* the list without its element at index i (Vec::remove)
RemoveAt(ts, i) == [j \in 1..(Len(ts) - 1) |-> IF j < i THEN ts[j] ELSE ts[j + 1]]

\* Logger::remove_transport, called with a handle that has been issued
RemoveTransport(t, h) ==
    /\ CanStart(t)
    /\ StateWritable
    /\ h < nextHandle
    /\ ops' = ops + 1
    /\ transports' = IF InList(transports, h)
                        THEN RemoveAt(transports,
                                      CHOOSE i \in 1..Len(transports) :
                                         /\ transports[i].handle = h
                                         /\ \A j \in 1..(i - 1) :
                                               transports[j].handle # h)
                        ELSE transports
    /\ removeLog' = [removeLog EXCEPT ![h] = Append(@, InList(transports, h))]
    /\ pc' = [pc EXCEPT ![t] = "idle"]
    /\ UNCHANGED <<queue, capacity, strategy, is_closed, completed, mutex,
                   worker_thread, wpc, buffer, nextHandle, received,
                   tflushed, logged, stolen, shutdownsSent, buffered,
                   lateLog, entry, levels, level, format,
                   min_required_severity, cleared, added, results, querying,
                   GLOBAL_LOGGER, global_ret>>

\* ------------------------------------------------------------------ query
\* LogQuery::matches, as far as the level allow-list decides it
matches(q, r) == q.levels = {} \/ r.level \in q.levels

\* the elements of s that match q, in order (iter().filter(..).cloned())
RECURSIVE Matching(_, _)
Matching(q, s) ==
    IF s = <<>> THEN <<>>
    ELSE IF matches(q, Head(s)) THEN <<Head(s)>> \o Matching(q, Tail(s))
    ELSE Matching(q, Tail(s))

\* Transport::query of a transport that answers: the matching ones of the
\* records it was given
TransportQuery(h, q) == Matching(q, received[h])

\* Logger::query: take the read lock and collect the matching records of
\* the buffer; with no transport in the list the call returns Ok at once
QueryStart(t, q) ==
    /\ CanStart(t)
    /\ StateLockFree
    /\ ops' = ops + 1
    /\ results' = [results EXCEPT ![t] = Matching(q, buffer)]
    /\ querying' = [querying EXCEPT ![t] =
                       [query |-> q, failed |-> FALSE,
                        index |-> IF transports = <<>> THEN 0 ELSE 1]]
    /\ pc' = [pc EXCEPT ![t] = IF transports = <<>> THEN "query_ok"
                                                    ELSE "query_call"]
    /\ UNCHANGED <<queue, capacity, strategy, is_closed, completed, mutex,
                   worker_thread, wpc, transports, buffer, nextHandle,
                   received, tflushed, logged, stolen, shutdownsSent,
                   buffered, lateLog, entry, levels, level, format,
                   min_required_severity, removeLog, cleared, added,
                   GLOBAL_LOGGER, global_ret>>

\* mutant of QueryTransport: a failing transport is skipped
QueryTransportSkipErr(t, ok) ==
    /\ pc[t] = "query_call"
    /\ LET i == querying[t].index
           h == transports[i].handle
           last == i = Len(transports)
       IN /\ results' = [results EXCEPT ![t] =
                           IF ok THEN @ \o TransportQuery(h, querying[t].query)
                                 ELSE @]
          /\ querying' = [querying EXCEPT
                            ![t].index = IF last THEN 0 ELSE i + 1,
                            ![t].failed = @ \/ ~ok]
          /\ pc' = [pc EXCEPT ![t] = IF last THEN "query_ok" ELSE "query_call"]
    /\ UNCHANGED <<queue, capacity, strategy, is_closed, completed, mutex,
                   worker_thread, wpc, transports, buffer, nextHandle,
                   received, tflushed, logged, stolen, shutdownsSent,
                   buffered, lateLog, entry, levels, level, format,
                   min_required_severity, removeLog, cleared, added, ops,
                   GLOBAL_LOGGER, global_ret>>

\* Logger::query: the query call into the transport at the current index
\* returns, Ok (ok) or Err; Ok appends its logs and moves on to the next
\* transport or returns Ok(results), Err returns the error alone
QueryTransport(t, ok) ==
    /\ pc[t] = "query_call"
    /\ LET i == querying[t].index
           h == transports[i].handle
           last == i = Len(transports)
       IN IF ok
             THEN /\ results' = [results EXCEPT ![t] =
                                   @ \o TransportQuery(h, querying[t].query)]
                  /\ querying' = [querying EXCEPT
                                    ![t].index = IF last THEN 0 ELSE i + 1]
                  /\ pc' = [pc EXCEPT ![t] = IF last THEN "query_ok"
                                                     ELSE "query_call"]
             ELSE /\ results' = [results EXCEPT ![t] = <<>>]
                  /\ querying' = [querying EXCEPT ![t].index = 0,
                                                  ![t].failed = TRUE]
                  /\ pc' = [pc EXCEPT ![t] = "query_err"]
    /\ UNCHANGED <<queue, capacity, strategy, is_closed, completed, mutex,
                   worker_thread, wpc, transports, buffer, nextHandle,
                   received, tflushed, logged, stolen, shutdownsSent,
                   buffered, lateLog, entry, levels, level, format,
                   min_required_severity, removeLog, cleared, added, ops,
                   GLOBAL_LOGGER, global_ret>>

\* ------------------------------------------------------------- configure
\* the handles of a transport list built by LoggerOptions::transport /
\* transports are the next ones of NEXT_TRANSPORT_ID
FreshHandles(ts) ==
    /\ nextHandle + Len(ts) <= MaxHandles
    /\ \A i \in 1..Len(ts) : ts[i].handle = nextHandle + i - 1

\* the transport list an Option<LoggerOptions> carries, if any
GivenTransports(new_options) ==
    IF new_options # None /\ new_options[1].transports # None
       THEN new_options[1].transports[1] ELSE <<>>

\* mutant of ConfigureMerge: the existing transport list is not cleared
ConfigureMergeKeep(o, new_options) ==
    IF new_options = None THEN o
    ELSE LET n == new_options[1] IN
         [format |-> IF n.format # None THEN n.format
                     ELSE IF o.format # None THEN o.format ELSE Some("json"),
          levels |-> IF n.levels # None THEN n.levels
                     ELSE IF o.levels # None THEN o.levels
                     ELSE Some(DefaultLevels),
          level |-> IF n.level # None THEN n.level
                    ELSE IF o.level # None THEN o.level ELSE Some("info"),
          transports |-> IF n.transports # None THEN n.transports[1]
                         ELSE o.transports]

\* mutant of ConfigureMerge: a field the argument does not carry falls back
\* to the default without looking at the current value
ConfigureMergeNoCurrent(o, new_options) ==
    IF new_options = None THEN [o EXCEPT !.transports = <<>>]
    ELSE LET n == new_options[1] IN
         [format |-> IF n.format # None THEN n.format ELSE Some("json"),
          levels |-> IF n.levels # None THEN n.levels ELSE Some(DefaultLevels),
          level |-> IF n.level # None THEN n.level ELSE Some("info"),
          transports |-> GivenTransports(new_options)]

\* Logger::configure, the options it leaves in the shared state: the list
\* is cleared whatever the argument; each field is the incoming value, else
\* the current one, else the default; an incoming list replaces the list
ConfigureMerge(o, new_options) ==
    IF new_options = None THEN [o EXCEPT !.transports = <<>>]
    ELSE LET n == new_options[1] IN
         [format |-> IF n.format # None THEN n.format
                     ELSE IF o.format # None THEN o.format ELSE Some("json"),
          levels |-> IF n.levels # None THEN n.levels
                     ELSE IF o.levels # None THEN o.levels
                     ELSE Some(DefaultLevels),
          level |-> IF n.level # None THEN n.level
                    ELSE IF o.level # None THEN o.level ELSE Some("info"),
          transports |-> GivenTransports(new_options)]

\* Logger::configure, one critical section under the shared-state write lock
Configure(t, new_options) ==
    /\ CanStart(t)
    /\ StateWritable
    /\ FreshHandles(GivenTransports(new_options))
    /\ ops' = ops + 1
    /\ nextHandle' = nextHandle + Len(GivenTransports(new_options))
    /\ cleared' = cleared \cup {transports[i].handle : i \in 1..Len(transports)}
    /\ LET merged == ConfigureMerge(options, new_options) IN
          /\ format' = merged.format
          /\ levels' = merged.levels
          /\ level' = merged.level
          /\ transports' = merged.transports
          /\ min_required_severity' = compute_min_severity(merged)
          /\ received' = process_buffered_entries(received, merged, buffer)
    /\ buffer' = <<>>
    /\ pc' = [pc EXCEPT ![t] = "idle"]
    /\ UNCHANGED <<queue, capacity, strategy, is_closed, completed, mutex,
                   worker_thread, wpc, tflushed, logged, stolen,
                   shutdownsSent, buffered, lateLog, entry, removeLog, added,
                   results, querying, GLOBAL_LOGGER, global_ret>>

\* ----------------------------------------------------------------- inputs
\* level names of the records logged in the level scenarios ("bogus" is in
\* no registry), and the level and format overrides of the transports added
LogLevels == {"error", "debug", "bogus"}
LevelOverrides == {None, Some("debug")}
FormatOverrides == {None, Some("drop")}

\* the arguments configure() is called with: None, options that only set
\* the level, or options that carry no transport list, an empty one or one
\* transport (Configure takes those whose handle is the next one)
ConfigureArgs ==
    {None,
     Some([levels |-> None, level |-> Some("debug"), format |-> None,
           transports |-> None])} \cup
    {Some([levels |-> None, level |-> None, format |-> None, transports |-> ts]) :
        ts \in {None, Some(<<>>)} \cup {Some(<<LoggerTransport(h)>>) : h \in Handles}}

\* a registry given to configure(): it has no "info" and ranks "debug" 1
CustomLevels == [error |-> 0, debug |-> 1]

\* the arguments configure() is called with in the merge scenario: None, or
\* options each field of which is absent or present
MergeArgs ==
    {None} \cup
    {Some([levels |-> lo, level |-> lv, format |-> f, transports |-> ts]) :
        lo \in {None, Some(CustomLevels)},
        lv \in {None, Some("debug")},
        f \in {None, Some("json")},
        ts \in {None} \cup
               {Some(<<LoggerTransportWith(h, Some("debug"), None)>>) : h \in Handles}}

\* ----------------------------------------------------------------- global
\* is_initialized
is_initialized == GLOBAL_LOGGER # None

\* a call of thread t into global.rs ends with outcome r
GlobalReturn(t, r) == global_ret' = [global_ret EXCEPT ![t] = Append(@, r)]

\* what a call that does not reach the installed logger leaves alone
GlobalFrame ==
    UNCHANGED <<queue, capacity, strategy, is_closed, completed, mutex,
                worker_thread, wpc, transports, buffer, nextHandle,
                received, tflushed, logged, stolen, shutdownsSent, buffered,
                lateLog, entry, levels, level, format,
                min_required_severity, removeLog, cleared, added, results,
                querying>>

\* mutant of GlobalInit: a later init() replaces the installed logger
GlobalInitReplace(t) ==
    /\ CanStart(t)
    /\ ops' = ops + 1
    /\ GLOBAL_LOGGER' = Some(t)
    /\ pc' = [pc EXCEPT ![t] = "idle"]
    /\ GlobalReturn(t, <<"init", "ok">>)
    /\ GlobalFrame

\* init: OnceLock::set stores the logger if the cell is empty, in one atomic
\* step; on a cell that is set it returns Err and expect() panics
GlobalInit(t) ==
    /\ CanStart(t)
    /\ ops' = ops + 1
    /\ IF GLOBAL_LOGGER = None
          THEN /\ GLOBAL_LOGGER' = Some(t)
               /\ pc' = [pc EXCEPT ![t] = "idle"]
               /\ GlobalReturn(t, <<"init", "ok">>)
          ELSE /\ UNCHANGED GLOBAL_LOGGER
               /\ pc' = [pc EXCEPT ![t] = "panicked"]
               /\ GlobalReturn(t, <<"init", "panic">>)
    /\ GlobalFrame

\* global_logger on an empty cell, called by function f of global.rs: get()
\* is None and expect() panics
global_logger_panic(t, f) ==
    /\ CanStart(t)
    /\ GLOBAL_LOGGER = None
    /\ ops' = ops + 1
    /\ pc' = [pc EXCEPT ![t] = "panicked"]
    /\ GlobalReturn(t, <<f, "panic">>)
    /\ UNCHANGED GLOBAL_LOGGER
    /\ GlobalFrame

\* mutant of GlobalTryLog: try_log goes through global_logger()
GlobalTryLogExpect(t, lv, e) ==
    IF GLOBAL_LOGGER = None
       THEN global_logger_panic(t, "try_log")
       ELSE /\ LoggerLog(t, lv, e)
            /\ IF ~IsFull(queue) THEN GlobalReturn(t, <<"try_log", "true">>)
                                  ELSE UNCHANGED global_ret

\* try_log: false on an empty cell; otherwise logger.log(entry), then true
\* (a call that finds the queue full returns true when handle_full_channel
\* returns, and that return is not recorded)
GlobalTryLog(t, lv, e) ==
    IF GLOBAL_LOGGER = None
       THEN /\ CanStart(t)
            /\ ops' = ops + 1
            /\ pc' = [pc EXCEPT ![t] = "idle"]
            /\ GlobalReturn(t, <<"try_log", "false">>)
            /\ UNCHANGED GLOBAL_LOGGER
            /\ GlobalFrame
       ELSE /\ LoggerLog(t, lv, e)
            /\ IF ~IsFull(queue) THEN GlobalReturn(t, <<"try_log", "true">>)
                                  ELSE UNCHANGED global_ret

\* log, flush, close, configure of global.rs: global_logger(), then the
\* method of the installed logger
GlobalLog(t, lv, e) ==
    IF GLOBAL_LOGGER = None THEN global_logger_panic(t, "log")
                            ELSE LogTrySendOf(t, lv, e)
GlobalFlush(t) ==
    IF GLOBAL_LOGGER = None THEN global_logger_panic(t, "flush")
                            ELSE FlushCheckClosed(t)
GlobalClose(t) ==
    IF GLOBAL_LOGGER = None THEN global_logger_panic(t, "close")
                            ELSE CloseSwap(t)
GlobalConfigure(t, new_options) ==
    IF GLOBAL_LOGGER = None THEN global_logger_panic(t, "configure")
                            ELSE Configure(t, new_options)

\* the queries tried: every level, the first record only, latest first; or
\* level "error" only, no start and no limit, earliest first
Queries == {LogQuery({}, Some(0), Some(1), "Descending"),
            LogQuery({"error"}, None, None, "Ascending")}

\* ------------------------------------------------------------------- Next
Next ==
    \/ \E t \in Threads : \E lv \in LogLevels \cup {"info"} : \E e \in BOOLEAN :
          LogTrySendOf(t, lv, e)
    \/ \E t \in Threads : HandleFullChannel(t)
    \/ \E t \in Threads : LogBlockSend(t)
    \/ \E t \in Threads : DropOldestRecv(t)
    \/ \E t \in Threads : DropOldestRetry(t)
    \/ \E t \in Threads : FlushCheckClosed(t)
    \/ \E t \in Threads : FlushLock(t)
    \/ \E t \in Threads : FlushSend(t)
    \/ \E t \in Threads : FlushWake(t)
    \/ \E t \in Threads : SpuriousWake(t)
    \/ \E t \in Threads : CloseSwap(t)
    \/ \E t \in Threads : CloseSend(t)
    \/ \E t \in Threads : CloseNotify(t)
    \/ \E t \in Threads : CloseJoin(t)
    \/ \E t \in Threads : \E lv \in LevelOverrides : \E f \in FormatOverrides :
          AddTransportWith(t, lv, f)
    \/ \E t \in Threads : \E h \in Handles : RemoveTransport(t, h)
    \/ \E t \in Threads : \E no \in ConfigureArgs : Configure(t, no)
    \/ \E t \in Threads : \E q \in Queries : QueryStart(t, q)
    \/ \E t \in Threads : \E ok \in BOOLEAN : QueryTransport(t, ok)
    \/ \E t \in Threads : GlobalInit(t)
    \/ \E t \in Threads : \E lv \in LogLevels \cup {"info"} : \E e \in BOOLEAN :
          GlobalTryLog(t, lv, e)
    \/ \E t \in Threads : \E lv \in LogLevels \cup {"info"} : \E e \in BOOLEAN :
          GlobalLog(t, lv, e)
    \/ \E t \in Threads : GlobalFlush(t)
    \/ \E t \in Threads : GlobalClose(t)
    \/ \E t \in Threads : \E no \in ConfigureArgs : GlobalConfigure(t, no)
    \/ WorkerEntry
    \/ WorkerFlush
    \/ WorkerFlushSignal
    \/ WorkerShutdown

Spec == Init /\ [][Next]_vars

\* ------------------------------------------------------- other scenarios
\* steps that continue an operation a thread has started, and the worker's
\* steps: the threads the scheduler keeps running
Continue(t) ==
    \/ HandleFullChannel(t) \/ LogBlockSend(t)
    \/ DropOldestRecv(t) \/ DropOldestRetry(t)
    \/ FlushLock(t) \/ FlushSend(t) \/ FlushWake(t)
    \/ CloseSend(t) \/ CloseNotify(t) \/ CloseJoin(t)
Worker == WorkerEntry \/ WorkerFlush \/ WorkerFlushSignal \/ WorkerShutdown
Fairness == WF_vars(Worker) /\ \A t \in Threads : WF_vars(Continue(t))

\* the one thread that calls flush() in the barrier scenario
Flusher == 1

\* Block policy, a transport attached from construction; every thread logs,
\* one thread flushes, nobody closes or reconfigures
InitBarrier == InitWith(1..MaxCap, {"Block"}, {1})
NextBarrier ==
    \/ \E t \in Threads : LogTrySend(t)
    \/ \E t \in Threads : HandleFullChannel(t)
    \/ \E t \in Threads : LogBlockSend(t)
    \/ FlushCheckClosed(Flusher)
    \/ \E t \in Threads : FlushLock(t)
    \/ \E t \in Threads : FlushSend(t)
    \/ \E t \in Threads : FlushWake(t)
    \/ \E t \in Threads : SpuriousWake(t)
    \/ WorkerEntry
    \/ WorkerFlush
    \/ WorkerFlushSignal
SpecBarrier == InitBarrier /\ [][NextBarrier]_vars

\* a never-closed logger whose queue cannot fill, a fair worker, any thread
\* logging and flushing; no wakeup happens without a notification
InitRoomy == InitWith({MaxOps}, {"Block"}, {1})
NextFlush ==
    \/ \E t \in Threads : LogTrySend(t)
    \/ \E t \in Threads : FlushCheckClosed(t)
    \/ \E t \in Threads : FlushLock(t)
    \/ \E t \in Threads : FlushSend(t)
    \/ \E t \in Threads : FlushWake(t)
    \/ WorkerEntry
    \/ WorkerFlush
    \/ WorkerFlushSignal
FairFlushSpec == InitRoomy /\ [][NextFlush]_vars /\ Fairness

\* one thread flushes while the others close; nobody logs
InitRace == InitWith(1..MaxCap, {"Block"}, {1})
NextRace ==
    \/ FlushCheckClosed(Flusher)
    \/ \E t \in Threads : FlushLock(t)
    \/ \E t \in Threads : FlushSend(t)
    \/ \E t \in Threads : FlushWake(t)
    \/ \E t \in Threads \ {Flusher} : CloseSwap(t)
    \/ \E t \in Threads : CloseSend(t)
    \/ \E t \in Threads : CloseNotify(t)
    \/ \E t \in Threads : CloseJoin(t)
    \/ WorkerFlush
    \/ WorkerFlushSignal
    \/ WorkerShutdown
FairRaceSpec == InitRace /\ [][NextRace]_vars /\ Fairness

\* a transport attached from construction, every policy and capacity; any
\* thread logs, flushes and closes
InitLife == InitWith(1..MaxCap, Strategies, {1})
NextLife ==
    \/ \E t \in Threads : LogTrySend(t)
    \/ \E t \in Threads : HandleFullChannel(t)
    \/ \E t \in Threads : LogBlockSend(t)
    \/ \E t \in Threads : DropOldestRecv(t)
    \/ \E t \in Threads : DropOldestRetry(t)
    \/ \E t \in Threads : FlushCheckClosed(t)
    \/ \E t \in Threads : FlushLock(t)
    \/ \E t \in Threads : FlushSend(t)
    \/ \E t \in Threads : FlushWake(t)
    \/ \E t \in Threads : CloseSwap(t)
    \/ \E t \in Threads : CloseSend(t)
    \/ \E t \in Threads : CloseNotify(t)
    \/ \E t \in Threads : CloseJoin(t)
    \/ WorkerEntry
    \/ WorkerFlush
    \/ WorkerFlushSignal
    \/ WorkerShutdown
SpecLife == InitLife /\ [][NextLife]_vars
FairLifeSpec == SpecLife /\ Fairness

\* as SpecLife, without flush() calls
NextClose ==
    \/ \E t \in Threads : LogTrySend(t)
    \/ \E t \in Threads : HandleFullChannel(t)
    \/ \E t \in Threads : LogBlockSend(t)
    \/ \E t \in Threads : DropOldestRecv(t)
    \/ \E t \in Threads : DropOldestRetry(t)
    \/ \E t \in Threads : CloseSwap(t)
    \/ \E t \in Threads : CloseSend(t)
    \/ \E t \in Threads : CloseNotify(t)
    \/ \E t \in Threads : CloseJoin(t)
    \/ WorkerEntry
    \/ WorkerShutdown
SpecClose == InitLife /\ [][NextClose]_vars

\* any thread flushes and closes; nobody logs
NextShut ==
    \/ \E t \in Threads : FlushCheckClosed(t)
    \/ \E t \in Threads : FlushLock(t)
    \/ \E t \in Threads : FlushSend(t)
    \/ \E t \in Threads : FlushWake(t)
    \/ \E t \in Threads : SpuriousWake(t)
    \/ \E t \in Threads : CloseSwap(t)
    \/ \E t \in Threads : CloseSend(t)
    \/ \E t \in Threads : CloseNotify(t)
    \/ \E t \in Threads : CloseJoin(t)
    \/ WorkerFlush
    \/ WorkerFlushSignal
    \/ WorkerShutdown
SpecShut == InitLife /\ [][NextShut]_vars

\* a queue that cannot fill; transports are added and removed and the logger
\* is reconfigured while records are logged
InitManage == InitWith({MaxOps}, {"Block"}, {0, 1})
NextManage ==
    \/ \E t \in Threads : LogTrySend(t)
    \/ \E t \in Threads : AddTransport(t)
    \/ \E t \in Threads : \E h \in Handles : RemoveTransport(t, h)
    \/ \E t \in Threads : \E no \in ConfigureArgs : Configure(t, no)
    \/ WorkerEntry
SpecManage == InitManage /\ [][NextManage]_vars

\* loggers built from LoggerOptions with or without a registry and a level,
\* and with no transport or one limited to "error"
PipelineOptions ==
    {[levels |-> lo, level |-> lv, format |-> Some("json"), transports |-> ts] :
        lo \in {None, Some(DefaultLevels)},
        lv \in {None, Some("info")},
        ts \in {<<>>, <<LoggerTransportWith(0, Some("error"), None)>>}}

\* a queue that cannot fill; records of several levels are logged while
\* transports with level and format overrides are added
InitPipeline == InitFrom({MaxOps}, {"Block"}, PipelineOptions)
NextPipeline ==
    \/ \E t \in Threads : \E lv \in LogLevels : LogTrySendOf(t, lv, FALSE)
    \/ \E t \in Threads : \E lv \in LevelOverrides : \E f \in FormatOverrides :
          AddTransportWith(t, lv, f)
    \/ WorkerEntry
SpecPipeline == InitPipeline /\ [][NextPipeline]_vars

\* the default level, registry and format, a queue that cannot fill; records
\* of several levels are logged while transports with level and format
\* overrides are added and removed
InitLevels == InitWith({MaxOps}, {"Block"}, {0, 1})
NextLevels ==
    \/ \E t \in Threads : \E lv \in LogLevels : LogTrySendOf(t, lv, FALSE)
    \/ \E t \in Threads : \E lv \in LevelOverrides : \E f \in FormatOverrides :
          AddTransportWith(t, lv, f)
    \/ \E t \in Threads : \E h \in Handles : RemoveTransport(t, h)
    \/ WorkerEntry
SpecLevels == InitLevels /\ [][NextLevels]_vars

\* a queue that cannot fill, a logger built with one transport or none;
\* ordinary and degenerate records are logged, a transport is added, one
\* thread flushes
InitEmpty == InitWith({MaxOps}, {"Block"}, {0, 1})
NextEmpty ==
    \/ \E t \in Threads : \E e \in BOOLEAN : LogTrySendOf(t, "info", e)
    \/ \E t \in Threads : AddTransport(t)
    \/ FlushCheckClosed(Flusher)
    \/ \E t \in Threads : FlushLock(t)
    \/ \E t \in Threads : FlushSend(t)
    \/ \E t \in Threads : FlushWake(t)
    \/ WorkerEntry
    \/ WorkerFlush
    \/ WorkerFlushSignal
SpecEmpty == InitEmpty /\ [][NextEmpty]_vars

\* a logger built without transports, every policy and capacity; every
\* thread logs, one thread adds the first transport and flushes
InitBuffer == InitWith(1..MaxCap, Strategies, {0})
NextBuffer ==
    \/ \E t \in Threads : LogTrySend(t)
    \/ \E t \in Threads : HandleFullChannel(t)
    \/ \E t \in Threads : LogBlockSend(t)
    \/ \E t \in Threads : DropOldestRecv(t)
    \/ \E t \in Threads : DropOldestRetry(t)
    \/ (transports = <<>> /\ AddTransport(Flusher))
    \/ FlushCheckClosed(Flusher)
    \/ \E t \in Threads : FlushLock(t)
    \/ \E t \in Threads : FlushSend(t)
    \/ \E t \in Threads : FlushWake(t)
    \/ \E t \in Threads : SpuriousWake(t)
    \/ WorkerEntry
    \/ WorkerFlush
    \/ WorkerFlushSignal
SpecBuffer == InitBuffer /\ [][NextBuffer]_vars

\* as SpecManage without remove_transport; one thread reconfigures
NextConfigure ==
    \/ \E t \in Threads : LogTrySend(t)
    \/ \E t \in Threads : AddTransport(t)
    \/ \E no \in ConfigureArgs : Configure(Flusher, no)
    \/ WorkerEntry
SpecConfigure == InitManage /\ [][NextConfigure]_vars

\* loggers built from LoggerOptions each field of which is absent or present,
\* without transports
MergeOptions ==
    {[levels |-> lo, level |-> lv, format |-> f, transports |-> <<>>] :
        lo \in {None, Some(DefaultLevels)},
        lv \in {None, Some("error")},
        f \in {None, Some("drop")}}

\* a queue that cannot fill; one thread logs and reconfigures while
\* transports with a level override are added
InitMerge == InitFrom({MaxOps}, {"Block"}, MergeOptions)
NextMerge ==
    \/ LogTrySendOf(Flusher, "debug", FALSE)
    \/ \E t \in Threads : AddTransportWith(t, Some("debug"), None)
    \/ \E no \in MergeArgs : Configure(Flusher, no)
    \/ WorkerEntry
SpecMerge == InitMerge /\ [][NextMerge]_vars

\* the level of the i-th record of a thread that logs by turns at "error"
\* (enabled at the default level "info") and at "debug" (not enabled)
LevelOf(i) == IF i % 2 = 1 THEN "error" ELSE "debug"

\* Block policy, one or two transports attached from construction, never
\* closed: every thread logs, by turns at "error" and at "debug";
\* once all log() calls have returned one thread flushes, and nobody logs
\* after that
InitDelivery == InitWith(1..MaxCap, {"Block"}, {1, 2})
NextDelivery ==
    \/ \E t \in Threads :
          pc[Flusher] = "idle" /\ LogTrySendOf(t, LevelOf(logged[t] + 1), FALSE)
    \/ \E t \in Threads : HandleFullChannel(t)
    \/ \E t \in Threads : LogBlockSend(t)
    \/ ((\A t \in Threads : AtRest(t)) /\ FlushCheckClosed(Flusher))
    \/ \E t \in Threads : FlushLock(t)
    \/ \E t \in Threads : FlushSend(t)
    \/ \E t \in Threads : FlushWake(t)
    \/ \E t \in Threads : SpuriousWake(t)
    \/ WorkerEntry
    \/ WorkerFlush
    \/ WorkerFlushSignal
SpecDelivery == InitDelivery /\ [][NextDelivery]_vars

\* DropCurrent policy, a logger built with one transport or none; every
\* thread logs, one thread adds a transport
InitDropCurrent == InitWith(1..MaxCap, {"DropCurrent"}, {0, 1})
NextDropCurrent ==
    \/ \E t \in Threads : LogTrySend(t)
    \/ \E t \in Threads : HandleFullChannel(t)
    \/ AddTransport(Flusher)
    \/ WorkerEntry
SpecDropCurrent == InitDropCurrent /\ [][NextDropCurrent]_vars

\* DropOldest policy, one transport attached from construction: one thread
\* logs and flushes, the others only add transports
InitDropOldest == InitWith(1..MaxCap, {"DropOldest"}, {1})
NextDropOldest ==
    \/ LogTrySend(Flusher)
    \/ HandleFullChannel(Flusher)
    \/ DropOldestRecv(Flusher)
    \/ DropOldestRetry(Flusher)
    \/ FlushCheckClosed(Flusher)
    \/ FlushLock(Flusher)
    \/ FlushSend(Flusher)
    \/ FlushWake(Flusher)
    \/ SpuriousWake(Flusher)
    \/ \E t \in Threads \ {Flusher} : AddTransport(t)
    \/ WorkerEntry
    \/ WorkerFlush
    \/ WorkerFlushSignal
SpecDropOldest == InitDropOldest /\ [][NextDropOldest]_vars

\* DropOldest or DropCurrent on a live logger: one thread flushes, the
\* others log;
\* the caller threads keep running, the worker may stop at any point
InitNoWait == InitWith(1..MaxCap, {"DropOldest", "DropCurrent"}, {1})
NextNoWait ==
    \/ \E t \in Threads \ {Flusher} : LogTrySend(t)
    \/ \E t \in Threads : HandleFullChannel(t)
    \/ \E t \in Threads : DropOldestRecv(t)
    \/ \E t \in Threads : DropOldestRetry(t)
    \/ FlushCheckClosed(Flusher)
    \/ \E t \in Threads : FlushLock(t)
    \/ \E t \in Threads : FlushSend(t)
    \/ \E t \in Threads : FlushWake(t)
    \/ WorkerEntry
    \/ WorkerFlush
    \/ WorkerFlushSignal
FairCallersSpec ==
    InitNoWait /\ [][NextNoWait]_vars /\ \A t \in Threads : WF_vars(Continue(t))

\* a queue that cannot fill, a logger built with up to MaxHandles
\* transports: one thread logs at "error" or "info" and adds a transport,
\* any thread queries
InitQuery == InitWith({MaxOps}, {"Block"}, 0..MaxHandles)
NextQuery ==
    \/ \E lv \in {"error", "info"} : LogTrySendOf(Flusher, lv, FALSE)
    \/ \E t \in Threads : \E q \in Queries : QueryStart(t, q)
    \/ \E t \in Threads : \E ok \in BOOLEAN : QueryTransport(t, ok)
    \/ AddTransport(Flusher)
    \/ WorkerEntry
SpecQuery == InitQuery /\ [][NextQuery]_vars

\* a queue that cannot fill, a logger built with MaxHandles transports: any
\* thread logs and removes transports
InitRemove == InitWith({MaxOps}, {"Block"}, {MaxHandles})
NextRemove ==
    \/ \E t \in Threads : LogTrySend(t)
    \/ \E t \in Threads : \E h \in Handles : RemoveTransport(t, h)
    \/ WorkerEntry
SpecRemove == InitRemove /\ [][NextRemove]_vars

\* the arguments of configure() that carry one new transport
ReplaceArgs ==
    {Some([levels |-> None, level |-> None, format |-> None,
           transports |-> Some(<<LoggerTransport(h)>>)]) : h \in Handles}

\* a queue that cannot fill, a logger built with one transport: one thread
\* logs and then replaces the transport by calling configure, after which it
\* logs no more; the other threads log throughout
InitReplace == InitWith({MaxOps}, {"Block"}, {1})
NextReplace ==
    \/ (cleared = {} /\ LogTrySend(Flusher))
    \/ \E t \in Threads \ {Flusher} : LogTrySend(t)
    \/ \E no \in ReplaceArgs : Configure(Flusher, no)
    \/ WorkerEntry
SpecReplace == InitReplace /\ [][NextReplace]_vars

\* producers under every policy while transports come and go, on a logger
\* built with one transport or none
InitOrder == InitWith(1..MaxCap, Strategies, {0, 1})
NextOrder ==
    \/ \E t \in Threads : LogTrySend(t)
    \/ \E t \in Threads : HandleFullChannel(t)
    \/ \E t \in Threads : LogBlockSend(t)
    \/ \E t \in Threads : DropOldestRecv(t)
    \/ \E t \in Threads : DropOldestRetry(t)
    \/ \E t \in Threads : AddTransport(t)
    \/ \E t \in Threads : \E h \in Handles : RemoveTransport(t, h)
    \/ WorkerEntry
SpecOrder == InitOrder /\ [][NextOrder]_vars

\* ------------------------------------------------------------- properties
Delivered(h, r) == \E k \in 1..Len(received[h]) : received[h][k] = r
Attached == {h \in Handles : InList(transports, h)}
FlushQueued(t) == \E k \in 1..Len(queue) : queue[k] = FlushMsg(t)
InFlush(t) == pc[t] \in {"flush_lock", "flush_send", "flush_wait", "flush_woken"}

\* C1: flush barrier. When flush() returns to a thread after waiting, every
\* record that thread passed to log() before the call has been received by
\* every attached transport (Block policy, a transport attached, one flusher,
\* no close).
FlushBarrier ==
    \A t \in Threads :
        pc[t] = "flush_ret" =>
            \A h \in Attached : \A i \in 1..logged[t] : Delivered(h, Rec(t, i))

\* C1 witness: the flusher is back from a flush that followed two of its own
\* records while another thread has logged too.
FlushBarrierWitness ==
    /\ pc[Flusher] = "flush_ret"
    /\ logged[Flusher] >= 2
    /\ \E u \in Threads \ {Flusher} : logged[u] >= 1
    /\ Attached # {}

\* C2: a flush() call does not return while the Flush message it enqueued is
\* still in the queue.
FlushWaitsForOwnMessage ==
    \A t \in Threads : pc[t] = "flush_ret" => ~FlushQueued(t)

\* C3: on a never-closed logger with a fair worker and a queue that never
\* fills, every flush() call eventually returns.
FlushEventuallyReturns ==
    \A t \in Threads : InFlush(t) ~> (pc[t] = "flush_ret")

InClose(t) == pc[t] \in {"close_send", "close_notify", "close_join"}

\* C4: a flush() call racing with close() on another thread eventually
\* returns.
FlushNeverHangs ==
    \A t \in Threads : InFlush(t) ~> AtRest(t)

\* C5: per-producer ordering. The records of one thread that a transport has
\* received appear in the order the thread passed them to log().
PerProducerOrder ==
    \A h \in Handles : \A i, j \in 1..Len(received[h]) :
        (i < j /\ received[h][i].src = received[h][j].src)
            => received[h][i].seq < received[h][j].seq

\* C5 witness: a transport has received two records of one thread, the
\* earlier of which waited in the pre-transport buffer.
PerProducerOrderWitness ==
    \E h \in Handles : \E i, j \in 1..Len(received[h]) :
        /\ i < j
        /\ received[h][i].src = received[h][j].src
        /\ received[h][i] \in buffered

\* C6: drop_oldest_and_retry never removes a Flush, Shutdown or Configure
\* message from the queue.
ControlNeverStolen == stolen \subseteq {"Entry"}

\* C7: every close() call eventually returns.
CloseEventuallyReturns ==
    \A t \in Threads : InClose(t) ~> AtRest(t)

\* the logger's own state (everything but the callers' positions and counts)
loggerState == <<queue, capacity, strategy, is_closed, completed, mutex,
                 worker_thread, wpc, transports, buffer, nextHandle,
                 received, tflushed, stolen, buffered, shutdownsSent>>

\* C8: close() is idempotent. At most one Shutdown message is ever enqueued,
\* at most one call is past the swap, and a close() call that finds the
\* logger closed returns at once and leaves the logger's state unchanged.
CloseIdempotent ==
    /\ [](shutdownsSent <= 1)
    /\ [](Cardinality({t \in Threads : InClose(t)}) <= 1)
    /\ [][\A t \in Threads :
            (is_closed /\ CloseSwap(t)) =>
                (pc'[t] = "close_noop" /\ UNCHANGED loggerState)]_vars

\* C8 witness: a close() call has returned as a no-op while the closing call
\* of another thread, which sent the one Shutdown, is still in progress.
CloseIdempotentWitness ==
    \E t, u \in Threads :
        /\ pc[t] = "close_noop"
        /\ pc[u] = "close_notify"
        /\ shutdownsSent = 1

CloseFlushesTransports ==
    wpc = "exited" => \A h \in Attached : tflushed[h] >= 1

\* C11: a log() call that begins after close() has returned never blocks: it
\* is never parked in the blocking send on the full queue of the exited
\* worker.
LogAfterCloseNeverBlocks ==
    \A t \in lateLog :
        ~(pc[t] = "log_block" /\ IsFull(queue) /\ wpc = "exited")

\* C12: a flush() call made once close() has set the closed flag returns Ok
\* at once: it does not lock the mutex, reset completed, enqueue a Flush
\* message or wait, and no thread enters the body of flush() any more.
FlushAfterCloseReturnsAtOnce ==
    /\ [][\A t \in Threads :
            (is_closed /\ FlushCheckClosed(t)) =>
                (pc'[t] = "flush_skip" /\ UNCHANGED loggerState)]_vars
    /\ [][\A t \in Threads :
            (is_closed /\ pc[t] # "flush_lock") => pc'[t] # "flush_lock"]_vars

\* C12 witness: flush() has returned through the short-circuit to one thread
\* while the close() call of another thread is still in progress.
FlushAfterCloseReturnsAtOnceWitness ==
    \E t, u \in Threads :
        /\ pc[t] = "flush_skip"
        /\ InClose(u)
        /\ is_closed

\* C13 as stated: for a handle returned by add_transport, the first
\* remove_transport call returns true and every later one returns false,
\* whatever else is done with the logger.
RemoveTrueExactlyOnce ==
    \A h \in added : \A k \in 1..Len(removeLog[h]) :
        removeLog[h][k] = (k = 1)

\* C13 amended: for a handle returned by add_transport, only the first
\* remove_transport call can return true, and it does unless a configure
\* call has cleared the transport from the list before.
RemoveTrueAtMostOnce ==
    \A h \in added :
        /\ \A k \in 2..Len(removeLog[h]) : removeLog[h][k] = FALSE
        /\ (removeLog[h] # <<>> /\ h \notin cleared) => removeLog[h][1] = TRUE
        /\ (removeLog[h] # <<>> /\ removeLog[h][1] = FALSE) => h \in cleared

\* C13 witness: a handle returned by add_transport has been removed (true)
\* and then removed again (false) on a logger that was never reconfigured
\* with it attached.
RemoveTrueAtMostOnceWitness ==
    \E h \in added :
        /\ removeLog[h] = <<TRUE, FALSE>>
        /\ h \notin cleared

\* C14: transport handles are pairwise distinct. A handle is issued from the
\* counter, which never goes back, so every handle issued so far is below
\* it, the handle issued next is a new one (also after a removal), and the
\* transport list never holds a handle twice.
HandlesDistinct ==
    /\ [](\A i, j \in 1..Len(transports) :
             i # j => transports[i].handle # transports[j].handle)
    /\ [](\A h \in Handles :
             (h \in added \/ h \in cleared \/ InList(transports, h)
                \/ removeLog[h] # <<>>) => h < nextHandle)
    /\ [][nextHandle' >= nextHandle]_vars
    /\ [][\A h \in added' \ added : h >= nextHandle /\ h < nextHandle']_vars

\* C14 witness: a transport was removed and add_transport then returned
\* another handle, whose transport is attached.
HandlesDistinctWitness ==
    \E h, g \in Handles :
        /\ removeLog[h] # <<>> /\ removeLog[h][1] = TRUE
        /\ g \in added /\ g > h
        /\ InList(transports, g)
        /\ ~InList(transports, h)

\* records that transport h receives in the step
NewlyDelivered(h) ==
    {received'[h][k] : k \in (Len(received[h]) + 1)..Len(received'[h])}

\* C15: pre-filter soundness. Whenever the cached min_required_severity is
\* m, no transport receives a record whose severity is greater than m.
PreFilterSound ==
    [][\A h \in Handles : \A r \in NewlyDelivered(h) :
          (min_required_severity' # None /\ levels' # None
             /\ get_severity(levels'[1], r.level) # None)
          => get_severity(levels'[1], r.level)[1] <= min_required_severity'[1]]_vars

\* records the pipeline dispatches in the step: the entry the worker takes
\* from the queue while a transport is attached, and the records of the
\* pre-transport buffer when it is drained
DispatchedNow ==
    (IF WorkerEntry /\ transports # <<>> THEN {Head(queue).rec} ELSE {})
    \cup (IF buffer # <<>> /\ buffer' = <<>>
             THEN {buffer[k] : k \in 1..Len(buffer)} ELSE {})

\* C16: per-transport level filter. A dispatched record is passed to a
\* transport's log if and only if it is not degenerate, the registry yields
\* a severity for its level and for the transport's effective level (the
\* override, else the global level), its severity is at most the effective
\* one, and the effective format returns a record; a record whose level is
\* in no registry reaches no transport.
PerTransportFilter ==
    [][\A i \in 1..Len(transports') : \A r \in DispatchedNow :
          LET tr == transports'[i]
              eff == IF tr.level # None THEN tr.level ELSE level'
              fmt == IF tr.format # None THEN tr.format ELSE format'
          IN (r \in NewlyDelivered(tr.handle))
             <=> /\ ~r.empty
                 /\ levels' # None
                 /\ eff # None
                 /\ get_severity(levels'[1], r.level) # None
                 /\ get_severity(levels'[1], eff[1]) # None
                 /\ get_severity(levels'[1], r.level)[1]
                       <= get_severity(levels'[1], eff[1])[1]
                 /\ (fmt # None => Transform(fmt[1], r) # None)]_vars

\* C17: a record whose message and metadata are both empty is never passed
\* to a transport's log, neither directly nor out of the pre-transport
\* buffer.
EmptyNeverDelivered ==
    \A h \in Handles : \A k \in 1..Len(received[h]) : ~received[h][k].empty

\* C17 witness: a degenerate record waited in the pre-transport buffer and
\* the buffer has been drained to a transport that received another record;
\* a second degenerate record was dispatched with the transport attached.
EmptyNeverDeliveredWitness ==
    /\ \E r \in buffered : r.empty
    /\ buffer = <<>> /\ queue = <<>>
    /\ \E h \in Handles : InList(transports, h) /\ received[h] # <<>>
    /\ \E t \in Threads :
          /\ entry[t] # None /\ entry[t][1].empty
          /\ entry[t][1] \notin buffered

\* position of record r in what transport h has received (0 when absent)
PositionIn(h, r) ==
    IF Delivered(h, r) THEN CHOOSE k \in 1..Len(received[h]) : received[h][k] = r
    ELSE 0

\* when flush() has returned to thread t with a transport attached: the
\* transport has received every record the worker had buffered and every
\* record of t, those of t in the order t logged them, nothing twice
BufferedThenDelivered(t) ==
    \A h \in Attached :
        /\ \A r \in buffered : Delivered(h, r)
        /\ \A i \in 1..logged[t] : Delivered(h, Rec(t, i))
        /\ \A i, j \in 1..logged[t] :
              i < j => PositionIn(h, Rec(t, i)) < PositionIn(h, Rec(t, j))
        /\ \A k, l \in 1..Len(received[h]) :
              k # l => received[h][k] # received[h][l]

ConfigureReplacesTransports ==
    [][(ops' # ops /\ logged' = logged /\ added' = added) =>
          \A t \in Threads : \A no \in ConfigureArgs \ {None} :
             Configure(t, no) =>
                /\ transports' = (IF no[1].transports # None
                                     THEN no[1].transports[1] ELSE <<>>)
                /\ \A h \in added : ~InList(transports', h)]_vars

\* C19 witness: a transport added with add_transport is gone and the list
\* holds the transport of the options given to a later configure call.
ConfigureReplacesTransportsWitness ==
    \E h \in added \cap cleared : \E g \in Handles \ added :
        /\ g > h
        /\ ~InList(transports, h)
        /\ transports = <<LoggerTransport(g)>>

\* C20: configure(None) is a no-op: level, registry, format, transport
\* list, pre-transport buffer and cached min_required_severity are the same
\* after the call as before it.
ConfigureNoneIsNoOp ==
    [][\A t \in Threads :
          Configure(t, None) =>
             UNCHANGED <<level, levels, format, transports, buffer,
                         min_required_severity>>]_vars

\* C21: configure(Some(opts)) merges per field. After the call each of
\* level, level registry and format is the value opts carries, else the
\* value the logger had before the call, else the default ("info", the
\* default registry, json); and the cached min_required_severity is the
\* value computed from the configuration the call leaves.
ConfigureMergesFields ==
    [][\A no \in MergeArgs \ {None} :
          Configure(Flusher, no) =>
             LET n == no[1] IN
             /\ level' = (IF n.level # None THEN n.level
                          ELSE IF level # None THEN level ELSE Some("info"))
             /\ levels' = (IF n.levels # None THEN n.levels
                           ELSE IF levels # None THEN levels
                           ELSE Some(DefaultLevels))
             /\ format' = (IF n.format # None THEN n.format
                           ELSE IF format # None THEN format ELSE Some("json"))
             /\ min_required_severity' =
                   compute_min_severity([levels |-> levels', level |-> level',
                                         format |-> format',
                                         transports |-> transports'])]_vars

\* C21 witness: after a configure call the registry is the incoming one, the
\* level is the default (the logger had none, the options carried none), the
\* format is the one the logger was built with, and the cache is the
\* severity the new registry gives the level of the new transport.
ConfigureMergesFieldsWitness ==
    /\ levels = Some(CustomLevels)
    /\ level = Some("info")
    /\ format = Some("drop")
    /\ transports # <<>>
    /\ min_required_severity = Some(1)

\* C22: reconfiguration is ordered with pending records. A record a thread
\* passed to log() before it called configure() is dispatched with the
\* transport list in effect before that call. Here the thread logs only
\* before its first configure call and every call replaces a non-empty list
\* by a new transport, so once it has reconfigured, the transports in the
\* list, all installed after its last record, have received none of its
\* records.
ConfigureOrderedWithRecords ==
    cleared # {} =>
        \A h \in Attached : \A k \in 1..Len(received[h]) :
            received[h][k].src # Flusher

\* how many times transport h has received record r
TimesDelivered(h, r) ==
    Cardinality({k \in 1..Len(received[h]) : received[h][k] = r})

\* C23: Block policy guarantees delivery. With the Block policy, transports
\* attached throughout and the logger not closed, when a flush() called
\* after all producers have finished returns, every attached transport has
\* received exactly once each record passed to log() with an enabled level,
\* and nothing else: no record is dropped, none is delivered twice.
BlockDeliversAll ==
    pc[Flusher] = "flush_ret" =>
        \A h \in Attached :
            /\ \A t \in Threads : \A i \in 1..logged[t] :
                  TimesDelivered(h, LogInfo(t, i, LevelOf(i), FALSE))
                     = (IF LevelOf(i) = "error" THEN 1 ELSE 0)
            /\ \A k \in 1..Len(received[h]) :
                  /\ received[h][k].seq <= logged[received[h][k].src]
                  /\ received[h][k].level = "error"

\* C23 witness: on a queue of capacity 1 the flush has returned after two
\* threads logged two records each, to two transports.
BlockDeliversAllWitness ==
    /\ pc[Flusher] = "flush_ret"
    /\ capacity = 1
    /\ Cardinality(Attached) = 2
    /\ \E t, u \in Threads : t # u /\ logged[t] >= 2 /\ logged[u] >= 2

\* record r is in the queue
Queued(r) == \E k \in 1..Len(queue) : queue[k] = EntryOf(r)

\* record r is in the pre-transport buffer
InBuffer(r) == \E k \in 1..Len(buffer) : buffer[k] = r

\* C24: DropCurrent keeps the earliest records. Under DropCurrent a log()
\* call that finds the queue full leaves the queue as it is and returns
\* with its record discarded (the record is nowhere: not queued, not
\* buffered, not delivered); the queue only loses its head, to the worker,
\* which buffers the record or passes it to every attached transport as the
\* latest record, so that the queued records are processed in order.
DropCurrentKeepsEarliest ==
    /\ [][strategy = "DropCurrent" =>
            \A t \in Threads :
               /\ (IsFull(queue) /\ logged'[t] # logged[t])
                     => (queue' = queue /\ pc'[t] = "log_full")
               /\ (pc[t] = "log_full" /\ pc'[t] # "log_full")
                     => /\ pc'[t] = "idle"
                        /\ UNCHANGED <<queue, buffer, received>>
                        /\ ~Queued(entry[t][1])
                        /\ ~InBuffer(entry[t][1])
                        /\ \A h \in Handles : ~Delivered(h, entry[t][1])]_vars
    /\ [][(strategy = "DropCurrent" /\ Len(queue') <= Len(queue)
                /\ queue' # queue) =>
            /\ queue' = Tail(queue)
            /\ LET r == Head(queue).rec IN
                  IF transports = <<>>
                     THEN buffer' = Append(buffer, r)
                     ELSE \A h \in Attached :
                            /\ received'[h] # <<>>
                            /\ received'[h][Len(received'[h])] = r
                            /\ ~Delivered(h, r)]_vars

\* C24 witness: under DropCurrent a thread is back from the log() call of
\* its latest record, which was discarded, while its first record, enqueued
\* before, has been delivered.
DropCurrentKeepsEarliestWitness ==
    \E t \in Threads : \E h \in Attached :
        /\ strategy = "DropCurrent"
        /\ pc[t] = "idle"
        /\ logged[t] >= 2
        /\ Delivered(h, Rec(t, 1))
        /\ ~Queued(Rec(t, logged[t]))
        /\ ~InBuffer(Rec(t, logged[t]))
        /\ ~Delivered(h, Rec(t, logged[t]))

\* thread t is inside a log() call that found the queue full
InLog(t) == pc[t] \in {"log_full", "log_block", "log_steal", "log_retry"}

\* C25: DropOldest keeps the most recent records. Under DropOldest with a
\* single producer and no other thread enqueuing, every log() call returns
\* with its record in the queue, a call removes at most one message, the
\* oldest, and when flush() returns the record passed to log() last has
\* been delivered to every transport attached since construction.
DropOldestKeepsLatest ==
    /\ [][\A t \in Threads :
            (strategy = "DropOldest" /\ pc'[t] = "idle"
                /\ (InLog(t) \/ logged'[t] # logged[t]))
            => \E k \in 1..Len(queue') : queue'[k] = EntryOf(entry'[t][1])]_vars
    /\ [][\A t \in Threads :
            ((InLog(t) \/ logged'[t] # logged[t]) /\ pc'[t] # pc[t]
                /\ Len(queue') <= Len(queue))
            => (queue' = queue
                  \/ (pc[t] = "log_steal" /\ queue' = Tail(queue)))]_vars
    /\ []((pc[Flusher] = "flush_ret" /\ logged[Flusher] >= 1) =>
            \A h \in Attached \ added :
               Delivered(h, Rec(Flusher, logged[Flusher])))

\* C25 witness: on a queue of capacity 1 the producer's flush has returned;
\* a log() call had discarded a queued record, the first record was never
\* delivered and the latest one has been.
DropOldestKeepsLatestWitness ==
    /\ strategy = "DropOldest"
    /\ capacity = 1
    /\ pc[Flusher] = "flush_ret"
    /\ "Entry" \in stolen
    /\ logged[Flusher] >= 2
    /\ \E h \in Attached \ added :
          /\ ~Delivered(h, Rec(Flusher, 1))
          /\ Delivered(h, Rec(Flusher, logged[Flusher]))

\* C26: log() waits for queue space only under the Block policy. Under
\* DropCurrent and DropOldest a log() call on a live logger is never in the
\* blocking send, and it returns whatever the worker does, even if the
\* worker never dequeues another message; the only thing it can wait for is
\* the shared-state lock it takes to read the policy.
LogNeverWaitsForSpace ==
    /\ [](strategy # "Block" => \A t \in Threads : pc[t] # "log_block")
    /\ \A t \in Threads :
          (strategy # "Block" /\ InLog(t))
             ~> (pc[t] = "idle" \/ (pc[t] = "log_full" /\ ~StateLockFree))

\* C26 witness: under DropCurrent a log() call has returned although the
\* queue was full and is still full and the worker has not dequeued anything.
LogNeverWaitsForSpaceWitness ==
    \E t \in Threads :
        /\ strategy = "DropCurrent"
        /\ pc[t] = "idle"
        /\ entry[t] # None
        /\ ~Queued(entry[t][1])
        /\ IsFull(queue)
        /\ buffered = {}
        /\ \A h \in Handles : received[h] = <<>>

\* the transport whose query operation thread t is calling, if any
QueriedBy(t) ==
    IF pc[t] = "query_call" THEN {transports[querying[t].index].handle} ELSE {}

\* C27: the core never calls a transport concurrently. No two calls into
\* the same transport are in progress at the same time: the worker makes its
\* log and flush calls under the write lock, so what is left to exclude is
\* two query() calls that are inside the query operation of one transport.
TransportCallsSerialized ==
    \A t, u \in Threads : t # u => QueriedBy(t) \cap QueriedBy(u) = {}

\* remove_transport(h) has returned true
Removed(h) == \E k \in 1..Len(removeLog[h]) : removeLog[h][k]

\* C28: after remove_transport(h) has returned true the removed transport
\* is out of the list for good and receives no log call any more, so none
\* for a record submitted after the removal; the transports that remain
\* receive every record the worker dispatches, and once the queue is empty
\* they have received every record passed to log().
RemovedReceivesNothing ==
    /\ [](\A h \in Handles : Removed(h) => ~InList(transports, h))
    /\ [][\A h \in Handles : Removed(h) => received'[h] = received[h]]_vars
    /\ [][\A h \in Handles : \A r \in DispatchedNow :
            InList(transports', h) => r \in NewlyDelivered(h)]_vars
    /\ []((queue = <<>> /\ \A t \in Threads : AtRest(t)) =>
            \A h \in Attached : \A t \in Threads : \A i \in 1..logged[t] :
               Delivered(h, Rec(t, i)))

\* C28 witness: a transport that had received a record was removed; a record
\* logged since has reached the transport that remains and not the removed
\* one.
RemovedReceivesNothingWitness ==
    \E h \in Handles : \E g \in Attached : \E t \in Threads :
        /\ Removed(h)
        /\ received[h] # <<>>
        /\ logged[t] >= 2
        /\ Delivered(h, Rec(t, 1))
        /\ Delivered(g, Rec(t, logged[t]))
        /\ ~Delivered(h, Rec(t, logged[t]))

\* C29: transport flush failures do not fail or abort a flush. With a
\* transport in the list whose flush returns an error, the worker's Flush
\* arm still invokes flush once on every transport of the list, the ones
\* behind the failing one included, then completes the barrier; flush()
\* returns Ok, and only after every attached transport was flushed.
FlushFailureIgnored ==
    /\ [][(wpc = "recv" /\ wpc' = "flush_signal") =>
            \A h \in Attached : tflushed'[h] = tflushed[h] + 1]_vars
    /\ [][(wpc = "flush_signal" /\ wpc' # wpc) =>
            (wpc' = "recv" /\ completed')]_vars
    /\ [](\A t \in Threads :
            pc[t] = "flush_ret" => \A h \in Attached : tflushed[h] >= 1)

\* C29 witness: flush() has returned Ok on a logger whose first transport
\* fails to flush; the transport behind it has been flushed.
FlushFailureIgnoredWitness ==
    /\ pc[Flusher] = "flush_ret"
    /\ Len(transports) >= 2
    /\ TransportFlush(transports[1].handle) = "Err"
    /\ TransportFlush(transports[2].handle) = "Ok"
    /\ tflushed[transports[2].handle] >= 1

\* what query(q) returns when no transport fails: the matching records of
\* the buffer, then the results of the transports ts in list order
RECURSIVE TransportResults(_, _)
TransportResults(q, ts) ==
    IF ts = <<>> THEN <<>>
    ELSE TransportQuery(Head(ts).handle, q) \o TransportResults(q, Tail(ts))
QueryAnswer(q) == Matching(q, buffer) \o TransportResults(q, transports)

\* C30: query is all-or-nothing across transports. Logger::query returns an
\* error if and only if a transport's query returned an error, and then
\* returns no results; otherwise it returns the buffered records that match
\* followed by each transport's results in transport-list order; and no
\* step of it changes the logger's state.
QueryAllOrNothing ==
    /\ [](\A t \in Threads :
            /\ pc[t] = "query_err" => (querying[t].failed /\ results[t] = <<>>)
            /\ pc[t] = "query_ok" => ~querying[t].failed)
    /\ [][\A t \in Threads :
            (pc[t] # "query_ok" /\ pc'[t] = "query_ok")
               => results'[t] = QueryAnswer(querying'[t].query)]_vars
    /\ [][(querying' # querying \/ results' # results) =>
            UNCHANGED <<loggerState, levels, level, format,
                        min_required_severity>>]_vars

\* C30 witness: one query() call has returned an error; another has
\* returned the matching records of two transports, the first of which
\* holds a record the query leaves out.
QueryAllOrNothingWitness ==
    \E t, u \in Threads :
        /\ pc[t] = "query_err"
        /\ pc[u] = "query_ok"
        /\ querying[u].query.levels = {"error"}
        /\ Len(transports) >= 2
        /\ Len(results[u]) >= 2
        /\ Len(results[u]) < Len(received[transports[1].handle])
                               + Len(received[transports[2].handle])

\* LogInfo timestamp (metadata "timestamp"): the caller's clock when it
\* built the record, which grows with the sequence number of its records
timestamp(r) == r.seq

\* LogQuery::sort: a stable sort by timestamp in the order of the query
RECURSIVE SortInsert(_, _, _)
SortInsert(q, r, s) ==
    IF s = <<>> THEN <<r>>
    ELSE IF (IF q.order = "Ascending" THEN timestamp(Head(s)) <= timestamp(r)
                                      ELSE timestamp(Head(s)) >= timestamp(r))
         THEN <<Head(s)>> \o SortInsert(q, r, Tail(s))
         ELSE <<r>> \o s
RECURSIVE sort(_, _)
sort(q, s) ==
    IF s = <<>> THEN <<>>
    ELSE SortInsert(q, s[Len(s)], sort(q, SubSeq(s, 1, Len(s) - 1)))

\* start (skip) then limit (take): start.unwrap_or(0), limit.unwrap_or(MAX)
Paginate(q, s) ==
    LET start == IF q.start = None THEN 0 ELSE q.start[1]
        last == IF q.limit = None THEN Len(s)
                ELSE IF start + q.limit[1] < Len(s) THEN start + q.limit[1]
                ELSE Len(s)
    IN SubSeq(s, start + 1, last)

\* C31: query pagination applies to the combined result. A Logger::query
\* call that returns Ok returns the buffered matches and all transports'
\* results, sorted by timestamp in the requested order, from position start
\* on and at most limit of them.
QueryPaginatesCombined ==
    [][\A t \in Threads :
         (pc[t] # "query_ok" /\ pc'[t] = "query_ok")
            => LET q == querying'[t].query
               IN /\ q.limit # None => Len(results'[t]) <= q.limit[1]
                  /\ results'[t] = Paginate(q, sort(q, QueryAnswer(q)))]_vars

\* the process-wide logger: a queue that cannot fill, one transport; every
\* call goes through global.rs: any thread calls init and try_log, one
\* thread also calls log, flush, close and configure
NextGlobal ==
    \/ \E t \in Threads : GlobalInit(t)
    \/ \E t \in Threads : GlobalTryLog(t, "info", FALSE)
    \/ GlobalLog(Flusher, "info", FALSE)
    \/ GlobalFlush(Flusher)
    \/ GlobalClose(Flusher)
    \/ GlobalConfigure(Flusher, None)
    \/ FlushLock(Flusher)
    \/ FlushSend(Flusher)
    \/ FlushWake(Flusher)
    \/ CloseSend(Flusher)
    \/ CloseNotify(Flusher)
    \/ CloseJoin(Flusher)
    \/ WorkerEntry
    \/ WorkerFlush
    \/ WorkerFlushSignal
    \/ WorkerShutdown
SpecGlobal == InitWith({MaxOps}, {"Block"}, {1}) /\ [][NextGlobal]_vars

\* C32: the global logger is set at most once. The first init() installs
\* its logger; an init() on an initialized cell panics and leaves the
\* installed logger unchanged; of several init() calls exactly one
\* succeeds; is_initialized() never goes from true back to false.
GlobalSetOnce ==
    /\ [](LET Installers ==
                 {t \in Threads : \E k \in 1..Len(global_ret[t]) :
                                     global_ret[t][k] = <<"init", "ok">>}
          IN /\ Cardinality(Installers) <= 1
             /\ \A t \in Threads : GLOBAL_LOGGER = Some(t) <=> t \in Installers
             /\ is_initialized <=> Installers # {})
    /\ [][is_initialized => GLOBAL_LOGGER' = GLOBAL_LOGGER]_vars
    /\ [][\A t \in Threads :
            LET Returns(r) == global_ret'[t] = Append(global_ret[t], r)
            IN /\ Returns(<<"init", "ok">>) =>
                     ~is_initialized /\ GLOBAL_LOGGER' = Some(t)
               /\ Returns(<<"init", "panic">>) =>
                     is_initialized /\ pc'[t] = "panicked"]_vars

\* C32 witness: both threads have called init(); one installed its logger,
\* the other panicked, and the cell still holds the first logger.
GlobalSetOnceWitness ==
    \E t, u \in Threads :
        /\ GLOBAL_LOGGER = Some(t)
        /\ global_ret[t] = <<<<"init", "ok">>>>
        /\ u # t
        /\ pc[u] = "panicked"
        /\ global_ret[u] = <<<<"init", "panic">>>>

\* C33: try_log returns true if and only if the global logger has been
\* initialized. On an empty cell it returns false, does not panic and
\* submits nothing; on an initialized one it submits the record as log()
\* does and returns true; log, flush, close and configure panic on an
\* empty cell, and nothing reaches a logger before init().
TryLogTrueIffInitialized ==
    /\ [][\A t \in Threads :
            LET Returns(r) == global_ret'[t] = Append(global_ret[t], r)
            IN /\ Returns(<<"try_log", "false">>) =>
                     /\ ~is_initialized
                     /\ pc'[t] # "panicked"
                     /\ UNCHANGED <<loggerState, logged, entry>>
               /\ Returns(<<"try_log", "true">>) =>
                     /\ is_initialized
                     /\ logged'[t] = logged[t] + 1
                     /\ entry'[t] = Some(LogInfo(t, logged'[t], "info", FALSE))
                     /\ queue' = Append(queue, EntryOf(entry'[t][1]))
               /\ \A f \in {"try_log", "log", "flush", "close", "configure"} :
                     Returns(<<f, "panic">>) =>
                        /\ f # "try_log"
                        /\ ~is_initialized
                        /\ pc'[t] = "panicked"
               /\ (is_initialized /\ global_ret'[t] # global_ret[t])
                     => \/ Returns(<<"try_log", "true">>)
                        \/ Returns(<<"init", "panic">>)]_vars
    /\ [][~is_initialized => UNCHANGED <<loggerState, logged, entry>>]_vars

\* C33 witness: a thread's try_log returned false before init() and true
\* after it, and the record of the second call is in the queue.
TryLogTrueIffInitializedWitness ==
    \E t \in Threads :
        /\ global_ret[t] = <<<<"try_log", "false">>, <<"init", "ok">>,
                          <<"try_log", "true">>>>
        /\ queue = <<EntryOf(LogInfo(t, 1, "info", FALSE))>>

\* C34: cache invariant. Whenever no operation holds the shared-state write
\* lock, the cached min_required_severity is the largest of the severity of
\* the global level and the severities of the level overrides of the
\* transports in the list.
CacheInvariant == min_required_severity = compute_min_severity(options)

\* C35: buffer invariant. Outside a critical section the pre-transport
\* buffer is non-empty only while the transport list is empty; add_transport
\* leaves the buffer empty when it returns.
BufferOnlyWithoutTransports == buffer # <<>> => transports = <<>>

\* C36: flush() on a logger with no transport attached returns Ok and
\* removes nothing from the pre-transport buffer. While the transport list
\* is empty the Flush arm leaves the buffer as it is, the buffer only grows
\* at its end, and every record the worker has buffered is still in it
\* when flush() returns.
FlushKeepsBuffer ==
    /\ [](transports = <<>> =>
            \A r \in buffered : \E k \in 1..Len(buffer) : buffer[k] = r)
    /\ [][(transports = <<>> /\ wpc = "recv" /\ wpc' = "flush_signal")
            => buffer' = buffer]_vars
    /\ [][transports' = <<>> =>
            (Len(buffer') >= Len(buffer)
             /\ SubSeq(buffer', 1, Len(buffer)) = buffer)]_vars

\* C36 witness: flush() has returned on a logger with no transport, and the
\* two records the worker buffered before it are still in the buffer.
FlushKeepsBufferWitness ==
    /\ pc[Flusher] = "flush_ret"
    /\ transports = <<>>
    /\ queue = <<>>
    /\ Len(buffer) >= 2
    /\ Cardinality(buffered) >= 2

\* C37: no deadlock between flush and the worker on a full queue. It never
\* happens that a thread inside flush() holds the flush-completion mutex
\* and is blocked in the send of its Flush message on a full queue while
\* the worker, holding the shared-state write lock in its Flush arm, waits
\* for that mutex: from such a state neither can ever move again.
NoFlushWorkerDeadlock ==
    ~ \E t \in Threads :
         /\ pc[t] = "flush_send"
         /\ mutex = t
         /\ IsFull(queue)
         /\ wpc = "flush_signal"
         /\ ~is_closed

\* C38: buffered records are never discarded by reconfiguration. A record
\* leaves the pre-transport buffer only in a step that dispatches it to a
\* non-empty transport list; a configure() call that leaves the list empty
\* keeps the buffered records.
BufferSurvivesConfigure ==
    [][\A k \in 1..Len(buffer) :
          ~(\E j \in 1..Len(buffer') : buffer'[j] = buffer[k])
             => transports' # <<>>]_vars

====
